---- MODULE Spec2Model ----
(***************************************************************************)
(* Stage / pipeline execution engine of build_loop.pipeline:               *)
(*   completion.py  PromiseCompletion, JsonCompletion, CompositeCompletion *)
(*   stage.py       Stage.run, Stage.get_next_stage, Stage.build_prompt    *)
(*   executor.py    PipelineExecutor.run, PipelineExecutor.stop            *)
(* One executor instance runs on one thread; stop() is called from another *)
(* thread and interleaves with the steps of run().                         *)
(*   Spec          one call of run() on a freshly constructed executor     *)
(*   SpecEvents    the same with an on_event callback that may raise       *)
(*   SpecHooks     the same with before_stage / after_stage hooks          *)
(*   SpecAnyStart  Spec, also for a start stage with the empty name        *)
(*   SpecRerun     run() called again on the same executor                 *)
(*   SpecEval      calls of evaluate on one completion strategy            *)
(*   SpecPrompt    one call of Stage.build_prompt                          *)
(* and of its callers, on the configurations loader.py builds:             *)
(*   SpecShip      one call of run() on the ship pipeline                  *)
(*   SpecPlan      cli.run_plan_pipeline on the planning pipeline          *)
(*   SpecServer    the server's pipeline thread and its stop endpoint      *)
(*   SpecStream    the server's event log and one WebSocket client         *)
(***************************************************************************)
EXTENDS Integers, Sequences, FiniteSets, TLC

\* ------------------------------------------------------------------ bounds
\* Largest max_iterations a stage of the modelled pipelines is given.
MaxIter == 2
\* Stage visits (entries of stage_history) one executor is followed through.
MaxVisits == 3
\* [[PROMISE:...]] tags in an output handed to evaluate on its own.
MaxTags == 2
\* Calls of ExecutionState.add_event a streaming client is followed through.
MaxAdded == 3

\* ------------------------------------------------------- Python values
\* Every Python value the engine handles, as a tagged record: None, a str,
\* an int (decimal digits in v) or a list (unhashable).
Val(t, v) == [t |-> t, v |-> v]
None == Val("none", "")
Str(s) == Val("str", s)
IntVal(s) == Val("int", s)
List(s) == Val("list", s)

\* bool(value): None, "", 0 and [] are false.
Truthy(x) ==
    CASE x.t = "none" -> FALSE
      [] x.t = "str" -> x.v # ""
      [] x.t = "int" -> x.v # "0"
      [] x.t = "list" -> x.v # ""

\* hash(value) succeeds: lists are unhashable.
Hashable(x) == x.t # "list"

\* `value in list_of_str`: element-wise ==, a str equals only the same str.
InStrList(x, l) == x.t = "str" /\ \E i \in 1..Len(l) : l[i] = x.v

EmptyDict == [k \in {} |-> None]

\* dict.update(other): keys of other overwrite, the rest is kept.
DictUpdate(d, other) ==
    [k \in DOMAIN d \cup DOMAIN other |-> IF k \in DOMAIN other THEN other[k] ELSE d[k]]

\* Strings are TLA+ strings, read by Len, SubSeq and \o. A TLA+ string
\* literal cannot hold a backtick: the model writes an apostrophe for it.
SeqMin(S) == CHOOSE i \in S : \A j \in S : i <= j
SeqMax(S) == CHOOSE i \in S : \A j \in S : i >= j
Char(s, i) == SubSeq(s, i, i)
\* The characters str.strip() removes and \s matches, of those the model holds.
Whitespace == {" ", "\n", "\t", "\r"}

\* s.startswith(p, i - 1), for the 1-based position i.
StartsAt(s, i, p) == i + Len(p) - 1 <= Len(s) /\ SubSeq(s, i, i + Len(p) - 1) = p

\* s.find(p, i - 1) + 1: the first position from i on where p starts, 0 if none.
Find(s, p, i) ==
    LET hits == {j \in i..Len(s) : StartsAt(s, j, p)}
    IN  IF hits = {} THEN 0 ELSE SeqMin(hits)

\* `p in s`.
Contains(s, p) == Find(s, p, 1) # 0

\* str.lstrip(), str.rstrip() and str.strip().
RECURSIVE LStrip(_)
LStrip(s) == IF Len(s) > 0 /\ Char(s, 1) \in Whitespace THEN LStrip(SubSeq(s, 2, Len(s))) ELSE s
RECURSIVE RStrip(_)
RStrip(s) ==
    IF Len(s) > 0 /\ Char(s, Len(s)) \in Whitespace THEN RStrip(SubSeq(s, 1, Len(s) - 1)) ELSE s
Strip(s) == RStrip(LStrip(s))

\* str.replace(old, new): every non-overlapping occurrence, left to right.
RECURSIVE Replace(_, _, _)
Replace(s, old, new) ==
    LET i == Find(s, old, 1)
    IN  IF i = 0 THEN s
        ELSE SubSeq(s, 1, i - 1) \o new \o Replace(SubSeq(s, i + Len(old), Len(s)), old, new)

\* str.upper() on the status texts the agent outputs of the model hold.
Upper(s) ==
    CASE s = "done" -> "DONE"
      [] s = "x" -> "X"
      [] s = "ok" -> "OK"
      [] s = "w" -> "W"
      [] OTHER -> s

\* str(exit_code) of the exit codes the modelled agent returns.
ExitCodes == {0, 1}
CodeStr(c) == IF c = 0 THEN "0" ELSE "1"

\* ------------------------------------------------------ completion.py
CompletionResult(c, s, a) == [is_complete |-> c, signal |-> s, artifacts |-> a]

\* An agent output, as the two regular expressions see it: the inner texts
\* of its [[PROMISE:...]] tags in order, and its '''json blocks in order. A
\* block is what json.loads makes of it: "malformed" (JSONDecodeError),
\* "raises" (another exception), "scalar" (a value that is no dict) or
\* "object" with its fields.
Output(tags, blocks) == [tags |-> tags, blocks |-> blocks]
Block(parse, data) == [parse |-> parse, data |-> data]
Obj(data) == Block("object", data)

\* Mutant: the tag pattern is greedy, one match runs to the last "]]".
RECURSIVE PromiseFindallGreedy(_, _)
PromiseFindallGreedy(s, i) ==
    LET open == Find(s, "[[PROMISE:", i)
        closes == {j \in (open + 10)..Len(s) : StartsAt(s, j, "]]")}
    IN  IF open = 0 \/ closes = {} THEN <<>>
        ELSE <<SubSeq(s, open + 10, SeqMax(closes) - 1)>>

\* PROMISE_PATTERN.findall(s) from position i on: \[\[PROMISE:(.*?)\]\] with
\* DOTALL, each match running from an opener to the nearest "]]" after it.
RECURSIVE PromiseFindall(_, _)
PromiseFindall(s, i) ==
    LET open == Find(s, "[[PROMISE:", i)
        close == IF open = 0 THEN 0 ELSE Find(s, "]]", open + 10)
    IN  IF open = 0 \/ close = 0 THEN <<>>
        ELSE <<SubSeq(s, open + 10, close - 1)>> \o PromiseFindall(s, close + 2)

\* JSON_BLOCK_PATTERN.finditer(s) from position i on, group 1 of each match:
\* '''json\s*\n(.*?)\n''' with DOTALL. \s* is greedy and gives back what the
\* rest of the pattern needs, the group is the shortest possible.
RECURSIVE JsonFinditer(_, _)
JsonFinditer(s, i) ==
    LET open == Find(s, "'''json", i)
        w == open + 7
        starts == {k \in w..Len(s) :
                      /\ Char(s, k) = "\n"
                      /\ \A m \in w..(k - 1) : Char(s, m) \in Whitespace
                      /\ Find(s, "\n'''", k + 1) # 0}
    IN  IF open = 0 THEN <<>>
        ELSE IF starts = {} THEN JsonFinditer(s, open + 1)
        ELSE LET k == SeqMax(starts)
                 j == Find(s, "\n'''", k + 1)
             IN  <<SubSeq(s, k + 1, j - 1)>> \o JsonFinditer(s, j + 4)

\* sys.int_info.default_max_str_digits: int() of a longer digit string raises
\* ValueError.
MaxStrDigits == 4300
IsDigits(s) == Len(s) > 0 /\ \A i \in 1..Len(s) : Char(s, i) \in {"0", "1", "2", "3", "4", "5", "6", "7", "8", "9"}

\* json.loads on the block texts the outputs of the model hold.
JsonLoads(s) ==
    CASE s = "{\"status\": \"done\", \"k\": \"v1\"}" ->
            Obj(("status" :> Str("done")) @@ ("k" :> Str("v1")))
      [] s = "{\"status\": \"x\", \"k\": \"v2\", \"exit_code\": 7}" ->
            Obj(("status" :> Str("x")) @@ ("k" :> Str("v2")) @@ ("exit_code" :> IntVal("7")))
      [] s = "{\"status\": \"w\"}" -> Obj("status" :> Str("w"))
      [] s = "{\"status\": 7}" -> Obj("status" :> IntVal("7"))
      [] s = "{\"status\": [\"DONE\"]}" -> Obj("status" :> List("DONE"))
      [] s = "{\"k\": \"v1\"}" -> Obj("k" :> Str("v1"))
      [] s = "[\"DONE\"]" -> Block("scalar", EmptyDict)
      [] IsDigits(s) -> IF Len(s) > MaxStrDigits THEN Block("raises", EmptyDict)
                        ELSE Block("scalar", EmptyDict)
      [] OTHER -> Block("malformed", EmptyDict)

\* What the two patterns and json.loads make of an output text.
Scan(text) ==
    LET groups == JsonFinditer(text, 1)
    IN  Output(PromiseFindall(text, 1), [i \in 1..Len(groups) |-> JsonLoads(Strip(groups[i]))])

\* Strategy descriptors; one record shape for the three kinds. A missing or
\* empty list of signals or statuses is replaced by the default one.
PromiseCompletion(complete_signals, require_success) ==
    [kind |-> "promise",
     complete |-> IF complete_signals = <<>> THEN <<"TASK_COMPLETE", "BUILD_COMPLETE">>
                  ELSE complete_signals,
     require_success |-> require_success,
     signal_field |-> "", artifact_fields |-> <<>>, strategies |-> <<>>]
JsonCompletion(complete_statuses, artifact_fields, require_success) ==
    [kind |-> "json",
     complete |-> IF complete_statuses = <<>> THEN <<"COMPLETE", "APPROVED">>
                  ELSE complete_statuses,
     require_success |-> require_success,
     signal_field |-> "status", artifact_fields |-> artifact_fields, strategies |-> <<>>]

\* Mutant: completion is withheld on a failed exit whatever the flag says.
WithheldOnAnyFailure(st, exit_code) == exit_code # 0

\* `self.require_success and exit_code != 0`: completion is withheld.
Withheld(st, exit_code) == st.require_success /\ exit_code # 0

\* The artifacts of a withheld completion.
ExitCodeArtifact(exit_code) == [k \in {"exit_code"} |-> IntVal(CodeStr(exit_code))]

\* Mutant: a non-complete result reports the first tag.
FirstSignal(signals) == IF Len(signals) > 0 THEN Str(signals[1]) ELSE None

\* `signals[-1] if signals else None`.
LastSignal(signals) == IF Len(signals) > 0 THEN Str(signals[Len(signals)]) ELSE None

\* Mutant: the last tag that is a complete signal decides.
PromiseEvaluateLastMatch(st, output, exit_code) ==
    LET signals == [i \in 1..Len(output.tags) |-> Strip(output.tags[i])]
        hits == {i \in 1..Len(signals) : \E j \in 1..Len(st.complete) : st.complete[j] = signals[i]}
    IN  IF hits # {}
        THEN LET signal == signals[SeqMax(hits)]
             IN  IF Withheld(st, exit_code)
                 THEN CompletionResult(FALSE, Str(signal), ExitCodeArtifact(exit_code))
                 ELSE CompletionResult(TRUE, Str(signal), EmptyDict)
        ELSE CompletionResult(FALSE, LastSignal(signals), EmptyDict)

\* PromiseCompletion.evaluate: the first tag, in order of appearance, that
\* is a complete signal decides; otherwise the last tag (or None) is reported.
PromiseEvaluate(st, output, exit_code) ==
    LET signals == [i \in 1..Len(output.tags) |-> Strip(output.tags[i])]
        hits == {i \in 1..Len(signals) : \E j \in 1..Len(st.complete) : st.complete[j] = signals[i]}
    IN  IF hits # {}
        THEN LET signal == signals[SeqMin(hits)]
             IN  IF Withheld(st, exit_code)
                 THEN CompletionResult(FALSE, Str(signal), ExitCodeArtifact(exit_code))
                 ELSE CompletionResult(TRUE, Str(signal), EmptyDict)
        ELSE CompletionResult(FALSE, LastSignal(signals), EmptyDict)

\* Mutant: the first block is used.
FirstMatch(matches) == matches[1]

\* `matches[-1]`: the block JsonCompletion.evaluate reads.
LastMatch(matches) == matches[Len(matches)]

\* Mutant: the signal field is left out of the default artifacts.
ExtractArtifactsWithoutSignal(st, data) ==
    IF Len(st.artifact_fields) > 0
    THEN [k \in {st.artifact_fields[i] : i \in 1..Len(st.artifact_fields)} \cap DOMAIN data |->
             data[k]]
    ELSE [k \in DOMAIN data \ {st.signal_field} |-> data[k]]

\* The artifacts JsonCompletion.evaluate extracts: the configured fields
\* that are present, or a copy of the whole object when none (or an empty
\* list) is configured.
ExtractArtifacts(st, data) ==
    IF Len(st.artifact_fields) > 0
    THEN [k \in {st.artifact_fields[i] : i \in 1..Len(st.artifact_fields)} \cap DOMAIN data |->
             data[k]]
    ELSE data

\* JsonCompletion.evaluate: the last '''json block; parse failures and
\* non-objects give the empty non-complete result.
JsonEvaluate(st, output, exit_code) ==
    IF Len(output.blocks) = 0 THEN CompletionResult(FALSE, None, EmptyDict)
    ELSE LET b == LastMatch(output.blocks)
         IN  IF b.parse # "object" THEN CompletionResult(FALSE, None, EmptyDict)
             ELSE LET data == b.data
                      raw == IF st.signal_field \in DOMAIN data THEN data[st.signal_field] ELSE None
                      signal == IF raw.t = "str" THEN Str(Upper(raw.v)) ELSE raw
                      artifacts == ExtractArtifacts(st, data)
                      is_complete == InStrList(signal, st.complete)
                  IN  IF is_complete /\ Withheld(st, exit_code)
                      THEN CompletionResult(FALSE, signal,
                               DictUpdate(artifacts, ExitCodeArtifact(exit_code)))
                      ELSE CompletionResult(is_complete, signal, artifacts)

\* JsonCompletion.evaluate raises: json.loads of the last block raised an
\* exception that is no JSONDecodeError.
JsonEvaluateRaises(st, output) ==
    Len(output.blocks) > 0 /\ LastMatch(output.blocks).parse = "raises"

CompositeCompletion(strategies) ==
    [kind |-> "composite", complete |-> <<>>, require_success |-> FALSE,
     signal_field |-> "", artifact_fields |-> <<>>, strategies |-> strategies]

\* Mutant: without a complete result the first strategy's result is returned.
CompositeEvaluateFirstResult(results) ==
    LET done == {i \in 1..Len(results) : results[i].is_complete}
    IN  IF done # {} THEN results[SeqMin(done)]
        ELSE IF Len(results) > 0 THEN results[1]
        ELSE CompletionResult(FALSE, None, EmptyDict)

\* CompositeCompletion.evaluate over the results of its strategies, in list
\* order: the first complete one, else the last one, else the default.
CompositeEvaluate(results) ==
    LET done == {i \in 1..Len(results) : results[i].is_complete}
    IN  IF done # {} THEN results[SeqMin(done)]
        ELSE IF Len(results) > 0 THEN results[Len(results)]
        ELSE CompletionResult(FALSE, None, EmptyDict)

\* CompletionStrategy.evaluate, dispatched on the strategy's class.
RECURSIVE Evaluate(_, _, _)
Evaluate(st, output, exit_code) ==
    CASE st.kind = "promise" -> PromiseEvaluate(st, output, exit_code)
      [] st.kind = "json" -> JsonEvaluate(st, output, exit_code)
      [] st.kind = "composite" ->
            CompositeEvaluate([i \in 1..Len(st.strategies) |->
                                  Evaluate(st.strategies[i], output, exit_code)])

\* The call of evaluate raises instead of returning: a composite evaluates
\* its strategies in order up to the first complete result, and the last
\* one again when none is complete.
RECURSIVE EvaluateRaises(_, _, _)
EvaluateRaises(st, output, exit_code) ==
    CASE st.kind = "promise" -> FALSE
      [] st.kind = "json" -> JsonEvaluateRaises(st, output)
      [] st.kind = "composite" ->
            \E i \in 1..Len(st.strategies) :
                /\ EvaluateRaises(st.strategies[i], output, exit_code)
                /\ \A j \in 1..(i - 1) :
                      /\ ~EvaluateRaises(st.strategies[j], output, exit_code)
                      /\ ~Evaluate(st.strategies[j], output, exit_code).is_complete

\* ------------------------------------------------------------- stage.py
StageConfig(completion, max_iterations, transitions) ==
    [completion |-> completion, max_iterations |-> max_iterations, transitions |-> transitions]

\* Mutant: the while test admits one iteration more.
LoopContinuesOffByOne(n, max_iterations) == n <= max_iterations

\* Mutant: the while test stops one iteration early.
LoopContinuesOneShort(n, max_iterations) == n + 1 < max_iterations

\* The `while iterations < self.config.max_iterations` test of Stage.run.
LoopContinues(n, max_iterations) == n < max_iterations

\* Mutant: the loop does not break on a completing result.
StageLoopIgnoresCompletion(result, n, max_iterations) == LoopContinues(n, max_iterations)

\* Stage.run after an evaluated iteration: no break on completion and the
\* while test holds again.
StageLoopGoesOn(result, n, max_iterations) ==
    ~result.is_complete /\ LoopContinues(n, max_iterations)

\* Mutant: the failure is not captured in an artifact.
ErrorResultWithoutArtifact(msg) == CompletionResult(FALSE, None, EmptyDict)

\* last_result of Stage.run after an invocation that raised.
ErrorResult(msg) == CompletionResult(FALSE, None, [k \in {"error"} |-> Str(msg)])

\* Mutant: Stage.run stores the artifacts of an iteration in the context.
ContextAfterIterationMerges(ctx, result) == DictUpdate(ctx, result.artifacts)

\* The dict Stage.run was handed as context, after one iteration of its
\* loop: run, run_iteration and build_prompt only read it.
ContextAfterIteration(ctx, result) == ctx

\* Mutant: a transition is looked up for a complete result only.
get_next_stage_when_complete(sc, result) ==
    IF ~result.is_complete \/ ~Truthy(result.signal) THEN [raised |-> FALSE, stage |-> None]
    ELSE IF ~Hashable(result.signal) THEN [raised |-> TRUE, stage |-> None]
    ELSE IF result.signal.t = "str" /\ result.signal.v \in DOMAIN sc.transitions
         THEN [raised |-> FALSE, stage |-> Str(sc.transitions[result.signal.v])]
         ELSE [raised |-> FALSE, stage |-> None]

\* Stage.get_next_stage: None for a falsy signal, else transitions.get(signal),
\* which raises TypeError on an unhashable signal.
get_next_stage(sc, result) ==
    IF ~Truthy(result.signal) THEN [raised |-> FALSE, stage |-> None]
    ELSE IF ~Hashable(result.signal) THEN [raised |-> TRUE, stage |-> None]
    ELSE IF result.signal.t = "str" /\ result.signal.v \in DOMAIN sc.transitions
         THEN [raised |-> FALSE, stage |-> Str(sc.transitions[result.signal.v])]
         ELSE [raised |-> FALSE, stage |-> None]

\* str(value) of the context values the model holds.
PyStr(x) ==
    CASE x.t = "none" -> "None"
      [] x.t = "str" -> x.v
      [] x.t = "int" -> x.v
      [] x.t = "list" -> "['" \o x.v \o "']"

\* s.endswith(suffix)
EndsWith(s, suffix) ==
    Len(s) >= Len(suffix) /\ SubSeq(s, Len(s) - Len(suffix) + 1, Len(s)) = suffix

\* A stage's prompt_template with what the file system holds at that path:
\* the text of the file, None when there is no file.
PromptTemplate(prompt_template, file) == [prompt_template |-> prompt_template, file |-> file]

\* Stage.load_template: the cached text, else the text of the file, else
\* FileNotFoundError for a missing .md path, else the inline text.
load_template(cache, pt) ==
    IF cache # None THEN [raised |-> FALSE, template |-> cache.v]
    ELSE IF pt.file # None THEN [raised |-> FALSE, template |-> pt.file.v]
    ELSE IF EndsWith(pt.prompt_template, ".md") THEN [raised |-> TRUE, template |-> ""]
    ELSE [raised |-> FALSE, template |-> pt.prompt_template]

\* prompt.replace(placeholder, str(value)) of Stage.build_prompt.
ReplacePlaceholder(s, old, new) == Replace(s, old, new)

\* The loop of Stage.build_prompt over context.items(), a sequence of
\* <<key, value>> in the dict's order: each key's placeholder is replaced in
\* the prompt built so far.
RECURSIVE SubstituteVariables(_, _)
SubstituteVariables(prompt, items) ==
    IF items = <<>> THEN prompt
    ELSE LET placeholder == "{" \o items[1][1] \o "}"
         IN  SubstituteVariables(
                 IF Contains(prompt, placeholder)
                 THEN ReplacePlaceholder(prompt, placeholder, PyStr(items[1][2]))
                 ELSE prompt,
                 Tail(items))

\* Stage.build_prompt(context): the prompt, or the exception of load_template.
build_prompt(cache, pt, context) ==
    LET loaded == load_template(cache, pt)
    IN  IF loaded.raised THEN [raised |-> TRUE, prompt |-> ""]
        ELSE [raised |-> FALSE, prompt |-> SubstituteVariables(loaded.template, context)]

\* ---------------------------------------------------------- executor.py
PipelineConfig(stages, start_stage, end_signals) ==
    [stages |-> stages, start_stage |-> start_stage, end_signals |-> end_signals]

\* PipelineSchema.validate_stages: the start stage and every transition
\* target are names of declared stages.
validate_stages(cfg) ==
    /\ cfg.start_stage \in DOMAIN cfg.stages
    /\ \A n \in DOMAIN cfg.stages :
          \A sig \in DOMAIN cfg.stages[n].transitions :
              cfg.stages[n].transitions[sig] \in DOMAIN cfg.stages

\* `result.signal and result.signal in self.config.end_signals`
IsEndSignal(cfg, result) == Truthy(result.signal) /\ InStrList(result.signal, cfg.end_signals)

\* Mutant: a stage that was visited before overwrites its entry.
RecordHistoryOncePerStage(history, name, signal) ==
    IF \E i \in 1..Len(history) : history[i][1] = name
    THEN [i \in 1..Len(history) |-> IF history[i][1] = name THEN <<name, signal>> ELSE history[i]]
    ELSE Append(history, <<name, signal>>)

\* `self._state.stage_history.append((current_stage_name, result.signal))`
RecordHistory(history, name, signal) == Append(history, <<name, signal>>)

\* Mutant: the stage loop does not read the stop flag.
WhileTestIgnoresStop(name, stop) == Truthy(name)

\* `while current_stage_name and not self._should_stop`
WhileTest(name, stop) == Truthy(name) /\ ~stop

\* Mutant: keys the context already holds keep their value.
MergeContextKeepsExisting(ctx, artifacts) ==
    [k \in DOMAIN ctx \cup DOMAIN artifacts |-> IF k \in DOMAIN ctx THEN ctx[k] ELSE artifacts[k]]

\* Mutant: the transition forgets the merge.
MergeContextSkipped(ctx, artifacts) == ctx

\* `context.update(result.artifacts)` on a transition.
MergeContext(ctx, artifacts) == DictUpdate(ctx, artifacts)

\* Mutant: the state's artifacts are replaced by the stage's.
MergeGlobalReplaces(global, artifacts) == artifacts

\* `self._state.global_artifacts.update(result.artifacts)`
MergeGlobal(global, artifacts) == DictUpdate(global, artifacts)

\* A call the executor makes to one of its listeners: an event handed to
\* on_event, or a before_stage / after_stage hook call. `seen` is the length
\* of stage_history the listener finds at the time of the call.
Call(kind, stage, signal, count, max, st, artifacts, seen) ==
    [kind |-> kind, stage |-> stage, signal |-> signal, count |-> count, max |-> max,
     status |-> st, artifacts |-> artifacts, seen |-> seen]

StageStartedEvent(stage, seen) ==
    Call("stage_started", stage, None, 1, 0, "", EmptyDict, seen)
StageIterationEvent(stage, iteration, max_iterations, seen) ==
    Call("stage_iteration", stage, None, iteration, max_iterations, "", EmptyDict, seen)
StageCompletedEvent(stage, signal, n, artifacts, seen) ==
    Call("stage_completed", stage, signal, n, 0, "", artifacts, seen)
PipelineCompletedEvent(st, total, final_signal, seen) ==
    Call("pipeline_completed", "", final_signal, total, 0, st, EmptyDict, seen)

EventKinds == {"stage_started", "stage_iteration", "stage_completed", "pipeline_completed"}

\* Mutant: an exception of the callback leaves _emit.
EmitPropagatesUncaught(registered, raises) == registered /\ raises

\* PipelineExecutor._emit lets an exception of on_event out: never, the
\* call is wrapped in try / except Exception.
EmitPropagates(registered, raises) == FALSE

\* PipelineExecutor._emit: on_event(event) is called when a callback is
\* registered.
Emit(log, registered, event) == IF registered THEN Append(log, event) ELSE log

\* A hook call as its hook sees it.
HookCall(kind, stage, seen) == Call(kind, stage, None, 0, 0, "", EmptyDict, seen)

\* The call of a hook is made when the hook is registered.
Notify(log, registered, call) == IF registered THEN Append(log, call) ELSE log

\* ------------------------------------------------- loader.py, hooks.py
\* dict.get(key, default)
DictGet(d, key, default) == IF key \in DOMAIN d THEN d[key] ELSE default

\* dict.setdefault(key, default)
SetDefault(d, key, default) == IF key \in DOMAIN d THEN d ELSE DictUpdate(d, key :> default)

NoTransitions == [sig \in {} |-> ""]

\* A single-pass stage of the planning pipeline: JsonCompletion on the
\* status field, max_iterations 1.
PlanStage(complete_statuses, transitions) ==
    StageConfig(JsonCompletion(complete_statuses, <<>>, FALSE), 1, transitions)

\* Mutant: the assess stage sends LIGHT through create_plan as well.
AssessTransitionsAllPlan ==
    ("LIGHT" :> "create_plan") @@ ("STANDARD" :> "create_plan")
        @@ ("COMPREHENSIVE" :> "create_plan")

\* create_plan_pipeline: the transitions of the assess stage.
AssessTransitions ==
    ("LIGHT" :> "create_tasks") @@ ("STANDARD" :> "create_plan")
        @@ ("COMPREHENSIVE" :> "create_plan")

\* create_plan_pipeline
PlanPipeline ==
    PipelineConfig(
        ("research" :> PlanStage(<<"RESEARCH_COMPLETE">>, "RESEARCH_COMPLETE" :> "assess"))
        @@ ("assess" :> PlanStage(<<"LIGHT", "STANDARD", "COMPREHENSIVE">>, AssessTransitions))
        @@ ("create_plan" :> PlanStage(<<"PLAN_COMPLETE">>, "PLAN_COMPLETE" :> "create_tasks"))
        @@ ("create_tasks" :> PlanStage(<<"TASKS_COMPLETE">>, "TASKS_COMPLETE" :> "plan_review"))
        @@ ("plan_review" :> PlanStage(<<"REVIEW_COMPLETE">>, "REVIEW_COMPLETE" :> "req_validate"))
        @@ ("req_validate" :> PlanStage(<<"PLAN_VALIDATED", "CLARIFICATIONS_NEEDED">>,
                                        NoTransitions))
        @@ ("update_docs" :> PlanStage(<<"PLAN_READY">>, NoTransitions)),
        "research", <<"PLAN_VALIDATED", "PLAN_READY">>)

\* run_plan_pipeline: the context of a new planning run, of which the model
\* keeps the keys the hooks and run_plan_pipeline read.
PlanContext ==
    ("clarifications_path" :> Str("")) @@ ("clarification_answers" :> Str(""))
        @@ ("manifest_path" :> Str("")) @@ ("depth" :> Str("standard"))
        @@ ("tier" :> Str("STANDARD"))

\* What the planning agent prints: one JSON block with a status, or none.
PlanStatus(status, fields) == Output(<<>>, <<Obj(("status" :> Str(status)) @@ fields)>>)
PlanOutputs ==
    {Output(<<>>, <<>>)}
    \cup {PlanStatus(s, EmptyDict) :
             s \in {"RESEARCH_COMPLETE", "STANDARD", "COMPREHENSIVE", "PLAN_COMPLETE",
                    "TASKS_COMPLETE", "REVIEW_COMPLETE", "PLAN_VALIDATED",
                    "CLARIFICATIONS_NEEDED"}}
    \cup {PlanStatus("LIGHT", ("depth" :> Str("light")) @@ ("tier" :> Str("LIGHT"))),
          PlanStatus("PLAN_VALIDATED", "manifest_path" :> Str("/out/build.md")),
          PlanStatus("CLARIFICATIONS_NEEDED",
                     "clarifications_path" :> Str("/out/clarifications/scope.md"))}

\* create_ship_pipeline(max_iterations): clean -> test -> rebase, the
\* first two looping back to themselves for each task.
ShipStage(complete_statuses, n, transitions) ==
    StageConfig(JsonCompletion(complete_statuses, <<>>, FALSE), n, transitions)
ShipPipeline(n) ==
    PipelineConfig(
        ("clean" :> ShipStage(<<"CLEAN_TASK_COMPLETE", "CLEAN_COMPLETE">>, n,
                              ("CLEAN_TASK_COMPLETE" :> "clean") @@ ("CLEAN_COMPLETE" :> "test")))
        @@ ("test" :> ShipStage(<<"TEST_TASK_COMPLETE", "TEST_COMPLETE">>, n,
                                ("TEST_TASK_COMPLETE" :> "test") @@ ("TEST_COMPLETE" :> "rebase")))
        @@ ("rebase" :> ShipStage(<<"SHIP_COMPLETE">>, IF n < 3 THEN n ELSE 3, NoTransitions)),
        "clean", <<"SHIP_COMPLETE">>)
ShipPipelines == {ShipPipeline(n) : n \in 1..MaxIter}
ShipOutputs ==
    {Output(<<>>, <<>>)}
    \cup {PlanStatus(s, EmptyDict) :
             s \in {"CLEAN_TASK_COMPLETE", "CLEAN_COMPLETE", "TEST_TASK_COMPLETE",
                    "TEST_COMPLETE", "SHIP_COMPLETE"}}

\* Stage visits a run is followed through: every stage of the planning
\* pipeline, which has no cycle; MaxVisits for the others.
VisitBound(cfg) == IF cfg = PlanPipeline THEN Cardinality(DOMAIN cfg.stages) ELSE MaxVisits

\* hooks.plan_before_stage; no clarifications file exists when update_docs
\* is reached.
plan_before_stage(stage, ctx) ==
    CASE stage = "create_plan" -> SetDefault(ctx, "depth", Str("standard"))
      [] stage = "update_docs" -> DictUpdate(ctx, "clarification_answers" :> Str(""))
      [] OTHER -> ctx

\* hooks.plan_after_stage
plan_after_stage(stage, ctx, result) ==
    CASE stage = "assess" ->
            SetDefault(SetDefault(ctx, "depth",
                                  DictGet(result.artifacts, "depth", Str("standard"))),
                       "tier", DictGet(result.artifacts, "tier", Str("STANDARD")))
      [] stage = "req_validate" /\ result.signal = Str("CLARIFICATIONS_NEEDED") ->
            LET clarif_path == DictGet(result.artifacts, "clarifications_path", Str(""))
            IN  IF Truthy(clarif_path)
                THEN DictUpdate(ctx, "clarifications_path" :> clarif_path)
                ELSE ctx
      [] OTHER -> ctx

\* hooks.before_stage_hook: stores a value of its own in the context.
before_stage(stage, ctx) == DictUpdate(ctx, "b" :> Str("hook"))

\* hooks.after_stage_hook: stores values of its own in the context, under
\* keys a stage artifact may also use.
after_stage(stage, ctx, result) == DictUpdate(ctx, "k" :> Str("hook"))

\* run(), step 2a: the before_stage hook, if there is one, is called with
\* (stage_name, context).
CallBeforeStage(registered, stage, ctx) ==
    IF ~registered THEN ctx
    ELSE IF stage \in DOMAIN PlanPipeline.stages THEN plan_before_stage(stage, ctx)
    ELSE before_stage(stage, ctx)

\* run(), step 2e: the after_stage hook, if there is one, is called with
\* (stage_name, context, result).
CallAfterStage(registered, stage, ctx, result) ==
    IF ~registered THEN ctx
    ELSE IF stage \in DOMAIN PlanPipeline.stages THEN plan_after_stage(stage, ctx, result)
    ELSE after_stage(stage, ctx, result)

\* Mutant: the transition map is consulted before the end signals.
StageOutcomeTransitionFirst(cfg, sc, result) ==
    LET next == get_next_stage(sc, result)
    IN  IF next.raised THEN [kind |-> "raise", stage |-> None]
        ELSE IF Truthy(next.stage) THEN [kind |-> "transition", stage |-> next.stage]
        ELSE IF IsEndSignal(cfg, result) THEN [kind |-> "end", stage |-> None]
        ELSE IF result.is_complete THEN [kind |-> "complete", stage |-> None]
        ELSE [kind |-> "failed", stage |-> None]

\* Mutant: a result without a transition always fails the run.
StageOutcomeNoTransitionFails(cfg, sc, result) ==
    IF IsEndSignal(cfg, result) THEN [kind |-> "end", stage |-> None]
    ELSE LET next == get_next_stage(sc, result)
         IN  IF next.raised THEN [kind |-> "raise", stage |-> None]
             ELSE IF Truthy(next.stage) THEN [kind |-> "transition", stage |-> next.stage]
             ELSE [kind |-> "failed", stage |-> None]

\* What PipelineExecutor.run does with a stage's result after recording it:
\* the end-signal check first, then the transition lookup, then the
\* complete / incomplete end.
StageOutcome(cfg, sc, result) ==
    IF IsEndSignal(cfg, result) THEN [kind |-> "end", stage |-> None]
    ELSE LET next == get_next_stage(sc, result)
         IN  IF next.raised THEN [kind |-> "raise", stage |-> None]
             ELSE IF Truthy(next.stage) THEN [kind |-> "transition", stage |-> next.stage]
             ELSE IF result.is_complete THEN [kind |-> "complete", stage |-> None]
             ELSE [kind |-> "failed", stage |-> None]

\* ------------------------------------------------- pipelines and outputs
\* Stage A is tag-based with the require_success gate, stage B is
\* JSON-based. DONE is an end signal that A also maps to B; W and X lead
\* back to A; "C" is a transition target that is no declared stage.
StageA(n) == StageConfig(PromiseCompletion(<<"X", "DONE">>, TRUE), n,
                         ("X" :> "B") @@ ("DONE" :> "B") @@ ("W" :> "A"))
StageB(n) == StageConfig(JsonCompletion(<<"OK", "X">>, <<>>, FALSE), n,
                         ("X" :> "A") @@ ("W" :> "C"))

Pipelines ==
    {PipelineConfig(("A" :> StageA(n)) @@ ("B" :> StageB(m)), "A", <<"DONE">>) :
        n \in 1..MaxIter, m \in 1..MaxIter}

Outputs ==
    {Output(<<>>, <<>>),
     Output(<<" X ">>, <<>>),
     Output(<<"DONE">>, <<>>),
     Output(<<"W">>, <<>>),
     Output(<<"X", "DONE">>, <<>>),
     Output(<<>>, <<Obj(("status" :> Str("ok")) @@ ("k" :> Str("v1")))>>),
     Output(<<>>, <<Obj(("status" :> Str("x")) @@ ("k" :> Str("v1")))>>),
     Output(<<>>, <<Obj(("status" :> Str("done")) @@ ("k" :> Str("v2")))>>),
     Output(<<>>, <<Obj("status" :> Str("w"))>>),
     Output(<<>>, <<Obj("status" :> List("X"))>>),
     Output(<<>>, <<Obj("status" :> Str("ok")), Block("malformed", EmptyDict)>>)}

\* Messages of the exceptions AgentRunner.run_iteration raises.
Failures == {"not found", "timeout"}

InitialContext == "k" :> Str("v0")

\* ------------------------------------------------------------------ state
VARIABLES
    config,                 \* PipelineExecutor.config
    on_event,               \* PipelineExecutor.on_event is set (a callback is registered)
    hooks,                  \* before_stage / after_stage hooks are registered
    pc,                     \* position of the thread inside run()
    should_stop,            \* PipelineExecutor._should_stop
    status,                 \* PipelineState.status
    current_stage,          \* PipelineState.current_stage
    global_artifacts,       \* PipelineState.global_artifacts
    stage_history,          \* PipelineState.stage_history
    total_iterations,       \* PipelineState.total_iterations
    context,                \* run(): context
    current_stage_name,     \* run(): current_stage_name
    iterations,             \* Stage.run: iterations, then run(): iterations
    last_result,            \* Stage.run: last_result, then run(): result
    cumulative_iterations,  \* Stage._cumulative_iterations, per stage
    observed,               \* the calls received by on_event and the hooks, in order
    calls,                  \* history: agent invocations of the current stage run
    evals,                  \* history: evaluation results of the current stage run
    stage_raised,           \* history: the latest stage run ended by an invocation failure
    finished,               \* history: (stage, signal) of the stage runs that returned
    loop_iters,             \* history: stage-loop iterations begun in the current run()
    stop_pending,           \* history: stop() was called while no run() was executing
    early_stop,             \* history: stop() came before the second loop iteration of this run()
    stop_requested,         \* history: stop() was called while this run() was executing
    callback_raised,        \* history: a call of on_event raised
    run_first,              \* history: stage runs that had returned when this run() was called
    run_iters,              \* history: agent invocations made by this run()
    eval_call,              \* calls of CompletionStrategy.evaluate: strategy, output text, exit code
    eval_result,            \* what the calls made so far returned, in order
    eval_raised,            \* a call of evaluate raised instead of returning
    eval_output,            \* history: the tags and blocks the last call found in the text
    prompt_call,            \* a call of Stage.build_prompt: template and context, in dict order
    prompt_result,          \* what that call returned, <<>> before it returns
    template_cache,         \* Stage._template_cache of the stage build_prompt is called on
    initial_context,        \* PipelineExecutor.initial_context
    session,                \* cli: what save_session was called with, <<>> before the call
    returned,               \* cli: what run_plan_pipeline returned, <<>> before it returns
    stop_accepted,          \* server, history: POST /api/execution/stop answered "stopped"
    events,                 \* server: ExecutionState.events
    added,                  \* server, history: calls of ExecutionState.add_event
    websocket               \* server: one client's run of execution_websocket

vars == <<config, on_event, hooks, pc, should_stop, status, current_stage, global_artifacts,
          stage_history, total_iterations, context, current_stage_name, iterations,
          last_result, cumulative_iterations, observed, calls, evals, stage_raised, finished,
          loop_iters, stop_pending, early_stop, stop_requested, callback_raised, run_first,
          run_iters, eval_call, eval_result, eval_raised, eval_output, prompt_call,
          prompt_result, template_cache, initial_context, session, returned,
          stop_accepted, events, added, websocket>>

\* The state of the callers of the engine: the cli and the web server.
caller_vars == <<session, returned, stop_accepted, events, added, websocket>>
\* What no step of run() writes.
fixed == <<config, on_event, hooks, eval_call, eval_result, eval_raised, eval_output,
           prompt_call, prompt_result, template_cache, initial_context, caller_vars>>
state_vars == <<status, current_stage, global_artifacts, stage_history, total_iterations>>
stage_vars == <<iterations, last_result, cumulative_iterations, calls, evals, stage_raised>>
run_history == <<run_first, run_iters>>
\* Everything but pc and callback_raised.
run_vars == <<fixed, should_stop, state_vars, context, current_stage_name, stage_vars,
              observed, finished, loop_iters, stop_pending, early_stop, stop_requested,
              run_history>>

NoCall == [strategy |-> PromiseCompletion(<<>>, FALSE), text |-> "", exit_code |-> 0]
NoPromptCall == [template |-> PromptTemplate("", None), context |-> <<>>]

\* PipelineExecutor.__init__ for one of the configurations cfgs, with
\* (callback) or without an on_event callback, with or without hooks, and
\* with the initial context ctx.
ConstructWith(cfgs, callback, with_hooks, ctx) ==
    /\ config \in cfgs
    /\ on_event = callback
    /\ hooks = with_hooks
    /\ initial_context = ctx
    /\ should_stop = FALSE
    /\ status = "pending"
    /\ current_stage = None
    /\ global_artifacts = EmptyDict
    /\ stage_history = <<>>
    /\ total_iterations = 0
    /\ context = EmptyDict
    /\ current_stage_name = None
    /\ iterations = 0
    /\ last_result = CompletionResult(FALSE, None, EmptyDict)
    /\ cumulative_iterations = [n \in DOMAIN config.stages |-> 0]
    /\ observed = <<>>
    /\ calls = 0
    /\ evals = <<>>
    /\ stage_raised = FALSE
    /\ finished = <<>>
    /\ loop_iters = 0
    /\ stop_pending = FALSE
    /\ early_stop = FALSE
    /\ stop_requested = FALSE
    /\ callback_raised = FALSE
    /\ run_first = 0
    /\ run_iters = 0

\* The executor has been constructed; run() has not been called.
Construct(cfgs, callback, with_hooks) ==
    ConstructWith(cfgs, callback, with_hooks, InitialContext) /\ pc = "idle"

\* A client that has not connected.
NoClient ==
    [pc |-> "closed", last_event_index |-> 0, batch |-> <<>>, sent |-> <<>>, first |-> 0]

\* No caller is followed: the executor is driven directly.
NoCallers ==
    /\ session = <<>>
    /\ returned = <<>>
    /\ stop_accepted = FALSE
    /\ events = <<>>
    /\ added = 0
    /\ websocket = NoClient

\* No call of evaluate is followed on its own.
NoEvaluate ==
    /\ eval_call = NoCall
    /\ eval_result = <<>>
    /\ eval_raised = FALSE
    /\ eval_output = Output(<<>>, <<>>)
NoPrompt == prompt_call = NoPromptCall /\ prompt_result = <<>> /\ template_cache = None

Init == Construct(Pipelines, FALSE, FALSE) /\ NoEvaluate /\ NoPrompt /\ NoCallers

Running == pc \in {"start", "loop", "iter", "ret", "post"}

\* History of on_event: the callback raised on an event this step delivered.
Delivery(delivers, raises) ==
    callback_raised' = (callback_raised \/ (on_event /\ delivers /\ raises))

\* The exception of a callback leaves _emit and run().
Abort == pc' = "raised" /\ UNCHANGED run_vars

\* PipelineExecutor.stop sets the flag; the history of the request.
StopFlags ==
    /\ should_stop' = TRUE
    /\ stop_pending' = (stop_pending \/ ~Running)
    /\ early_stop' = (early_stop \/ (Running /\ loop_iters <= 1))
    /\ stop_requested' = (stop_requested \/ Running)

\* PipelineExecutor.stop, from any thread at any time.
StopRun ==
    /\ StopFlags
    /\ UNCHANGED <<fixed, pc, state_vars, context, current_stage_name, stage_vars,
                   observed, finished, loop_iters, run_history>>

Stop == StopRun /\ UNCHANGED callback_raised

\* run(), entry: status = RUNNING.
RunCallRun ==
    /\ pc = "idle"
    /\ pc' = "start"
    /\ status' = "running"
    /\ loop_iters' = 0
    /\ early_stop' = stop_pending
    /\ stop_requested' = FALSE
    /\ stop_pending' = FALSE
    /\ run_first' = Len(finished)
    /\ run_iters' = 0
    /\ UNCHANGED <<fixed, should_stop, current_stage, global_artifacts, stage_history,
                   total_iterations, context, current_stage_name, stage_vars, observed,
                   finished>>

RunCall == RunCallRun /\ UNCHANGED callback_raised

\* run(): the stop flag is cleared, the context copied, the start stage set.
RunResetRun ==
    /\ pc = "start"
    /\ pc' = "loop"
    /\ should_stop' = FALSE
    /\ context' = initial_context
    /\ current_stage_name' = Str(config.start_stage)
    /\ UNCHANGED <<fixed, state_vars, stage_vars, observed, finished, loop_iters,
                   stop_pending, early_stop, stop_requested, run_history>>

RunReset == RunResetRun /\ UNCHANGED callback_raised

\* The while test of run() is false.
LoopExitRun ==
    /\ pc = "loop"
    /\ ~WhileTest(current_stage_name, should_stop)
    /\ pc' = "post"
    /\ UNCHANGED run_vars

LoopExit == LoopExitRun /\ UNCHANGED callback_raised

\* The loop body with a stage name that is no declared stage.
UnknownStageRun ==
    /\ pc = "loop"
    /\ WhileTest(current_stage_name, should_stop)
    /\ current_stage_name.v \notin DOMAIN config.stages
    /\ pc' = "post"
    /\ status' = "failed"
    /\ loop_iters' = loop_iters + 1
    /\ UNCHANGED <<fixed, should_stop, current_stage, global_artifacts, stage_history,
                   total_iterations, context, current_stage_name, stage_vars, observed,
                   finished, stop_pending, early_stop, stop_requested, run_history>>

UnknownStage == UnknownStageRun /\ UNCHANGED callback_raised

\* The loop body up to the call of stage.run, and Stage.run up to its loop:
\* the before_stage hook, the stage-started event.
StageStartRun(raises) ==
    /\ pc = "loop"
    /\ WhileTest(current_stage_name, should_stop)
    /\ current_stage_name.v \in DOMAIN config.stages
    /\ Len(finished) < VisitBound(config)
    /\ IF EmitPropagates(on_event, raises) THEN Abort
       ELSE LET name == current_stage_name.v
                seen == Len(stage_history)
            IN  /\ current_stage' = current_stage_name
                /\ context' = CallBeforeStage(hooks, name, context)
                /\ observed' = Emit(Notify(observed, hooks, HookCall("before_stage", name, seen)),
                                    on_event, StageStartedEvent(name, seen))
                /\ iterations' = 0
                /\ last_result' = CompletionResult(FALSE, None, EmptyDict)
                /\ calls' = 0
                /\ evals' = <<>>
                /\ stage_raised' = FALSE
                /\ loop_iters' = loop_iters + 1
                /\ pc' = IF LoopContinues(0, config.stages[name].max_iterations)
                         THEN "iter" ELSE "ret"
                /\ UNCHANGED <<fixed, should_stop, status, global_artifacts, stage_history,
                               total_iterations, current_stage_name, cumulative_iterations,
                               finished, stop_pending, early_stop, stop_requested, run_history>>

StageStart(raises) == StageStartRun(raises) /\ Delivery(TRUE, raises)

\* One iteration of Stage.run in which the agent returns (exit_code, output).
AgentReturnsRun(output, exit_code, raises) ==
    /\ pc = "iter"
    /\ IF EmitPropagates(on_event, raises) THEN Abort
       ELSE LET name == current_stage_name.v
                sc == config.stages[name]
                result == Evaluate(sc.completion, output, exit_code)
                n == iterations + 1
            IN  /\ iterations' = n
                /\ cumulative_iterations' = [cumulative_iterations EXCEPT ![name] = @ + 1]
                /\ observed' = Emit(observed, on_event,
                                    StageIterationEvent(name, cumulative_iterations[name] + 1,
                                                        sc.max_iterations, Len(stage_history)))
                /\ calls' = calls + 1
                /\ run_iters' = run_iters + 1
                /\ evals' = Append(evals, result)
                /\ last_result' = result
                /\ pc' = IF StageLoopGoesOn(result, n, sc.max_iterations) THEN "iter" ELSE "ret"
                /\ finished' = IF StageLoopGoesOn(result, n, sc.max_iterations) THEN finished
                               ELSE Append(finished, <<name, result.signal>>)
                /\ context' = ContextAfterIteration(context, result)
                /\ UNCHANGED <<fixed, should_stop, state_vars, current_stage_name,
                               stage_raised, loop_iters, stop_pending, early_stop,
                               stop_requested, run_first>>

AgentReturns(output, exit_code, raises) ==
    AgentReturnsRun(output, exit_code, raises) /\ Delivery(TRUE, raises)

\* One iteration of Stage.run in which the agent invocation raises.
AgentRaisesRun(msg, raises) ==
    /\ pc = "iter"
    /\ IF EmitPropagates(on_event, raises) THEN Abort
       ELSE LET name == current_stage_name.v
                sc == config.stages[name]
            IN  /\ iterations' = iterations + 1
                /\ cumulative_iterations' = [cumulative_iterations EXCEPT ![name] = @ + 1]
                /\ observed' = Emit(observed, on_event,
                                    StageIterationEvent(name, cumulative_iterations[name] + 1,
                                                        sc.max_iterations, Len(stage_history)))
                /\ calls' = calls + 1
                /\ run_iters' = run_iters + 1
                /\ stage_raised' = TRUE
                /\ last_result' = ErrorResult(msg)
                /\ pc' = "ret"
                /\ finished' = Append(finished, <<name, None>>)
                /\ context' = ContextAfterIteration(context, ErrorResult(msg))
                /\ UNCHANGED <<fixed, should_stop, state_vars, current_stage_name,
                               evals, loop_iters, stop_pending, early_stop,
                               stop_requested, run_first>>

AgentRaises(msg, raises) == AgentRaisesRun(msg, raises) /\ Delivery(TRUE, raises)

\* run() from the return of stage.run to the end of the loop body: the
\* counters and artifacts, the history entry, the after_stage hook, the
\* stage-completed event, then the end-signal check and the transition.
AfterStageRun(raises) ==
    /\ pc = "ret"
    /\ IF EmitPropagates(on_event, raises) THEN Abort
       ELSE LET name == current_stage_name.v
                sc == config.stages[name]
                result == last_result
                out == StageOutcome(config, sc, result)
                total == total_iterations + iterations
                history == RecordHistory(stage_history, name, result.signal)
                seen == Len(history)
                hooked == CallAfterStage(hooks, name, context, result)
                log1 == Notify(observed, hooks, HookCall("after_stage", name, seen))
                log2 == Emit(log1, on_event,
                             StageCompletedEvent(name, result.signal, iterations,
                                                 result.artifacts, seen))
            IN  /\ total_iterations' = total
                /\ global_artifacts' = MergeGlobal(global_artifacts, result.artifacts)
                /\ stage_history' = history
                /\ observed' = IF out.kind = "end"
                               THEN Emit(log2, on_event,
                                         PipelineCompletedEvent("completed", total,
                                                                result.signal, seen))
                               ELSE log2
                /\ status' = CASE out.kind = "end" -> "completed"
                               [] out.kind = "complete" -> "completed"
                               [] out.kind = "failed" -> "failed"
                               [] OTHER -> status
                /\ current_stage_name' = IF out.kind = "transition" THEN out.stage
                                         ELSE current_stage_name
                /\ context' = IF out.kind = "transition"
                              THEN MergeContext(hooked, result.artifacts)
                              ELSE hooked
                /\ pc' = CASE out.kind = "transition" -> "loop"
                           [] out.kind = "raise" -> "raised"
                           [] OTHER -> "post"
                /\ calls' = 0
                /\ evals' = <<>>
                /\ UNCHANGED <<fixed, should_stop, current_stage, iterations, last_result,
                               cumulative_iterations, stage_raised, finished, loop_iters,
                               stop_pending, early_stop, stop_requested, run_history>>

AfterStage(raises) == AfterStageRun(raises) /\ Delivery(TRUE, raises)

\* run() after the loop: the stop request is honoured, the state returned.
FinishRun(raises) ==
    /\ pc = "post"
    /\ IF should_stop /\ EmitPropagates(on_event, raises) THEN Abort
       ELSE /\ pc' = "done"
            /\ status' = IF should_stop THEN "stopped" ELSE status
            /\ observed' = IF should_stop
                           THEN Emit(observed, on_event,
                                     PipelineCompletedEvent("stopped", total_iterations, None,
                                                            Len(stage_history)))
                           ELSE observed
            /\ UNCHANGED <<fixed, should_stop, current_stage, global_artifacts, stage_history,
                           total_iterations, context, current_stage_name, stage_vars, finished,
                           loop_iters, stop_pending, early_stop, stop_requested, run_history>>

Finish(raises) == FinishRun(raises) /\ Delivery(should_stop, raises)

\* What a call of on_event can do: return, or raise when there is a callback.
Raises == IF on_event THEN BOOLEAN ELSE {FALSE}

Next ==
    \/ Stop
    \/ RunCall
    \/ RunReset
    \/ LoopExit
    \/ UnknownStage
    \/ \E r \in Raises : StageStart(r)
    \/ \E o \in Outputs, c \in ExitCodes, r \in Raises : AgentReturns(o, c, r)
    \/ \E m \in Failures, r \in Raises : AgentRaises(m, r)
    \/ \E r \in Raises : AfterStage(r)
    \/ \E r \in Raises : Finish(r)

\* One run() of an executor built without callback and without hooks.
Spec == Init /\ [][Next]_vars

\* The same with an on_event callback that may raise on any event, for the
\* pipelines whose stage B runs one iteration.
EventPipelines == {p \in Pipelines : p.stages["B"].max_iterations = 1}
InitEvents == Construct(EventPipelines, TRUE, FALSE) /\ NoEvaluate /\ NoPrompt /\ NoCallers
SpecEvents == InitEvents /\ [][Next]_vars

\* The same with a callback and with both hooks.
InitHooks == Construct(EventPipelines, TRUE, TRUE) /\ NoEvaluate /\ NoPrompt /\ NoCallers
SpecHooks == InitHooks /\ [][Next]_vars

\* A pipeline whose only stage, the start stage, is named by the empty
\* string.
EmptyNamePipeline ==
    PipelineConfig("" :> StageConfig(JsonCompletion(<<"OK">>, <<>>, FALSE), 1, "X" :> ""),
                   "", <<"DONE">>)

\* One run() of an executor built for any of these pipelines.
InitAnyStart ==
    Construct(Pipelines \cup {EmptyNamePipeline}, FALSE, FALSE) /\ NoEvaluate /\ NoPrompt /\ NoCallers
SpecAnyStart == InitAnyStart /\ [][Next]_vars

\* run() has returned its state to the caller; the executor can be run again.
RunAgain ==
    /\ pc = "done"
    /\ pc' = "idle"
    /\ UNCHANGED <<run_vars, callback_raised>>

NextRerun == Next \/ RunAgain

\* Calls of run(), one after the other, on one executor whose stages run
\* one iteration each.
RerunPipelines == {p \in Pipelines : \A n \in DOMAIN p.stages : p.stages[n].max_iterations = 1}
InitRerun == Construct(RerunPipelines, FALSE, FALSE) /\ NoEvaluate /\ NoPrompt /\ NoCallers
SpecRerun == InitRerun /\ [][NextRerun]_vars

\* The output texts handed to evaluate are lines of pieces: tags, an opener
\* that is never closed, fenced json blocks, a fence that is never closed,
\* plain text.
TagTexts == {"X", "DONE", "W", " X ", "BUILD_COMPLETE", "TASK_COMPLETE"}
Tag(t) == "[[PROMISE:" \o t \o "]]"
TagPieces == {Tag(t) : t \in TagTexts} \cup {"[[PROMISE:x ", "ok"}
TagSeqs == UNION {[1..n -> TagPieces] : n \in 0..MaxTags}

BlockTexts ==
    {"{\"status\": \"done\", \"k\": \"v1\"}",
     "{\"status\": \"x\", \"k\": \"v2\", \"exit_code\": 7}",
     "{\"status\": \"w\"}",
     "{\"status\": 7}",
     "{\"status\": [\"DONE\"]}",
     "{\"k\": \"v1\"}",
     "[\"DONE\"]",
     "{oops"}
Fenced(b) == "'''json\n" \o b \o "\n'''"
BlockPieces == {Fenced(b) : b \in BlockTexts} \cup {"'''json\n{bad "}
BlockSeqs == UNION {[1..n -> BlockPieces] : n \in 0..MaxTags}

MixedPieces ==
    {Tag("X"), Tag("W"), Fenced("{\"status\": \"done\", \"k\": \"v1\"}"),
     Fenced("{\"status\": \"w\"}"), Fenced("{\"status\": [\"DONE\"]}")}
MixedSeqs == UNION {[1..n -> MixedPieces] : n \in 0..MaxTags}

\* "\n".join(pieces)
RECURSIVE JoinLines(_)
JoinLines(pieces) ==
    IF pieces = <<>> THEN ""
    ELSE IF Len(pieces) = 1 THEN pieces[1]
    ELSE pieces[1] \o "\n" \o JoinLines(Tail(pieces))

\* "1" * n
RECURSIVE Ones(_)
Ones(n) ==
    IF n = 0 THEN ""
    ELSE IF n % 2 = 0 THEN LET h == Ones(n \div 2) IN h \o h
    ELSE "1" \o Ones(n - 1)

\* A block holding one integer literal of more digits than int() accepts,
\* alone and after a tag.
LongTexts ==
    {Fenced(Ones(MaxStrDigits + 1)), JoinLines(<<Tag("X"), Fenced(Ones(MaxStrDigits + 1))>>)}

PromiseStrategies ==
    {PromiseCompletion(s, g) : s \in {<<>>, <<"X", "DONE">>}, g \in BOOLEAN}
JsonStrategies ==
    {JsonCompletion(<<"DONE", "X">>, f, g) : f \in {<<>>, <<"k", "zz">>}, g \in BOOLEAN}
CompositeStrategies ==
    LET J == JsonCompletion(<<"DONE", "X">>, <<>>, TRUE)
        P == PromiseCompletion(<<"X", "DONE">>, FALSE)
    IN  {CompositeCompletion(<<J, P>>), CompositeCompletion(<<P, J>>), CompositeCompletion(<<>>)}

EvalCall(strategy, text, exit_code) ==
    [strategy |-> strategy, text |-> text, exit_code |-> exit_code]

\* Calls of evaluate on the three kinds of strategy, with and without
\* require_success.
EvalCalls ==
    {EvalCall(st, JoinLines(t), c) : st \in PromiseStrategies, t \in TagSeqs, c \in ExitCodes}
    \cup {EvalCall(st, JoinLines(t), c) : st \in JsonStrategies, t \in BlockSeqs, c \in ExitCodes}
    \cup {EvalCall(st, JoinLines(t), c) :
             st \in CompositeStrategies, t \in MixedSeqs, c \in ExitCodes}
    \cup {EvalCall(st, t, c) :
             st \in JsonStrategies \cup CompositeStrategies, t \in LongTexts, c \in ExitCodes}

\* Calls of evaluate made on one strategy instance with the same arguments.
MaxEvals == 2

\* Mutant: evaluate consumes the first complete signal of the instance.
SelfAfterEvaluateConsumes(st) ==
    [st EXCEPT !.complete = IF Len(@) > 1 THEN Tail(@) ELSE @]

\* The attributes of the strategy instance after evaluate: none is assigned.
SelfAfterEvaluate(st) == st

\* CompletionStrategy.evaluate(output, exit_code) returns or raises.
EvaluateCall ==
    /\ ~eval_raised
    /\ Len(eval_result) < MaxEvals
    /\ LET output == Scan(eval_call.text)
       IN  /\ IF EvaluateRaises(eval_call.strategy, output, eval_call.exit_code)
              THEN eval_raised' = TRUE /\ eval_result' = eval_result
              ELSE /\ eval_raised' = FALSE
                   /\ eval_result' = Append(eval_result,
                          Evaluate(eval_call.strategy, output, eval_call.exit_code))
           /\ eval_output' = output
    /\ eval_call' = [eval_call EXCEPT !.strategy = SelfAfterEvaluate(@)]
    /\ UNCHANGED <<config, on_event, hooks, prompt_call, prompt_result, template_cache,
                   initial_context, caller_vars, pc,
                   should_stop, state_vars, context, current_stage_name, stage_vars, observed,
                   finished, loop_iters, stop_pending, early_stop, stop_requested, run_history,
                   callback_raised>>

NextEval == EvaluateCall

\* Calls of evaluate on a strategy, outside any run.
InitEval ==
    /\ Construct({PipelineConfig(("A" :> StageA(1)) @@ ("B" :> StageB(1)), "A", <<"DONE">>)},
                 FALSE, FALSE)
    /\ eval_call \in EvalCalls
    /\ eval_result = <<>>
    /\ eval_raised = FALSE
    /\ eval_output = Output(<<>>, <<>>)
    /\ NoPrompt
    /\ NoCallers
SpecEval == InitEval /\ [][NextEval]_vars

\* The templates, keys and values of the calls of build_prompt.
Templates ==
    {PromptTemplate(t, None) :
        t \in {"{a} {a} {zz}", "{b} and {a}", "{{a}}", "no placeholder", "missing.md"}}
    \cup {PromptTemplate("prompt.md", Str("{a}{b}"))}
ContextKeys == {"a", "b"}
ContextValues == {Str("x"), Str("b"), Str("{b}"), Str("{a}"), IntVal("7"), None, List("X")}
\* context.items() of the dicts over those keys, in every insertion order.
Contexts ==
    {<<>>}
    \cup {<<<<k, v>>>> : k \in ContextKeys, v \in ContextValues}
    \cup {<<<<k[1], v1>>, <<k[2], v2>>>> :
             k \in {<<"a", "b">>, <<"b", "a">>}, v1 \in ContextValues, v2 \in ContextValues}

\* Stage.build_prompt(context) returns or raises.
BuildPrompt ==
    /\ prompt_result = <<>>
    /\ LET loaded == load_template(template_cache, prompt_call.template)
       IN  template_cache' = IF loaded.raised THEN template_cache ELSE Str(loaded.template)
    /\ prompt_result' = <<build_prompt(template_cache, prompt_call.template, prompt_call.context)>>
    /\ UNCHANGED <<config, on_event, hooks, eval_call, eval_result, eval_raised, eval_output,
                   prompt_call, initial_context, caller_vars, pc, should_stop, state_vars, context, current_stage_name, stage_vars,
                   observed, finished, loop_iters, stop_pending, early_stop, stop_requested,
                   run_history, callback_raised>>

NextPrompt == BuildPrompt

\* One call of build_prompt on a new Stage, outside any run.
InitPrompt ==
    /\ Construct({PipelineConfig(("A" :> StageA(1)) @@ ("B" :> StageB(1)), "A", <<"DONE">>)},
                 FALSE, FALSE)
    /\ NoEvaluate
    /\ NoCallers
    /\ prompt_call \in {[template |-> t, context |-> c] : t \in Templates, c \in Contexts}
    /\ prompt_result = <<>>
    /\ template_cache = None
SpecPrompt == InitPrompt /\ [][NextPrompt]_vars

\* The steps of run() with a callback that never raises.
QuietNext ==
    \/ StopRun
    \/ RunCallRun
    \/ RunResetRun
    \/ LoopExitRun
    \/ UnknownStageRun
    \/ StageStartRun(FALSE)
    \/ \E o \in Outputs, c \in ExitCodes : AgentReturnsRun(o, c, FALSE)
    \/ \E m \in Failures : AgentRaisesRun(m, FALSE)
    \/ AfterStageRun(FALSE)
    \/ FinishRun(FALSE)

\* ------------------------------------------------------------------ claims
\* max_iterations of the stage that is running or has just returned.
StageMax == config.stages[current_stage.v].max_iterations
InStage == pc \in {"iter", "ret"}
NoneComplete == \A i \in 1..Len(evals) : ~evals[i].is_complete

\* C1: in every call of Stage.run the agent is invoked at most
\* max_iterations times and iterations_used is at most max_iterations,
\* whatever the agent returns and the completion strategy decides.
C1_MaxIterationsRespected ==
    InStage => (calls <= StageMax /\ iterations <= StageMax)

C1_Witness ==
    pc = "ret" /\ StageMax >= 2 /\ calls = StageMax /\ ~last_result.is_complete

\* C2: with max_iterations = N >= 1, a stage run in which no evaluation
\* reports completion and every invocation returns invokes the agent exactly
\* N times and returns the N-th evaluation's result with iterations_used = N.
C2_ExhaustedRunsExactlyN ==
    (pc = "ret" /\ ~stage_raised /\ NoneComplete) =>
        /\ calls = StageMax
        /\ iterations = StageMax
        /\ Len(evals) = StageMax
        /\ last_result = evals[StageMax]
        /\ ~last_result.is_complete

C2_Witness ==
    pc = "ret" /\ ~stage_raised /\ NoneComplete /\ StageMax >= 2 /\ Truthy(last_result.signal)

\* C3: an agent invocation that raises on the k-th iteration ends Stage.run
\* at once: no invocation follows, and the stage returns iterations_used = k
\* with a non-complete result that carries an `error` artifact, whatever
\* max_iterations is.
C3_InvocationFailureStops ==
    /\ (pc = "iter" => ~stage_raised)
    /\ (pc = "ret" /\ stage_raised) =>
          /\ iterations = calls
          /\ Len(evals) = calls - 1
          /\ ~last_result.is_complete
          /\ "error" \in DOMAIN last_result.artifacts

C3_Witness ==
    pc = "ret" /\ stage_raised /\ iterations = 1 /\ StageMax >= 2

\* C4: Stage.run stops at the first iteration whose evaluation is complete:
\* it returns that result, iterations_used is that iteration's index, and
\* the agent is not invoked again in that stage run.
C4_StopsAtFirstComplete ==
    /\ (pc = "iter" => NoneComplete)
    /\ (pc = "ret" /\ ~NoneComplete) =>
          LET first == SeqMin({i \in 1..Len(evals) : evals[i].is_complete})
          IN  /\ first = Len(evals)
              /\ last_result = evals[first]
              /\ iterations = first
              /\ calls = first

C4_Witness ==
    pc = "ret" /\ last_result.is_complete /\ iterations < StageMax

\* The stage that ran last, its result's place in the pipeline.
LastStage == config.stages[current_stage.v]
LastEntry == stage_history[Len(stage_history)]
Ran == Len(stage_history) > 0
IsEnd(signal) == Truthy(signal) /\ InStrList(signal, config.end_signals)
StoppedOnRequest == status = "stopped" /\ should_stop

\* C5 as stated: a stage result whose signal is an end signal ends the run
\* with status COMPLETED right after that stage, also when the stage maps
\* that signal to a target; no stage is entered afterwards.
C5_EndSignalCompletes ==
    \A i \in 1..Len(stage_history) :
        IsEnd(stage_history[i][2]) =>
            /\ i = Len(stage_history)
            /\ pc \in {"post", "done"}
            /\ pc = "done" => status = "completed"

\* C5 amended: such a result ends the run right after that stage, with
\* status COMPLETED, or STOPPED when stop() was requested during the run; the
\* transition target is never entered and the agent is not invoked again.
C5_EndSignalEndsRun ==
    \A i \in 1..Len(stage_history) :
        IsEnd(stage_history[i][2]) =>
            /\ i = Len(stage_history)
            /\ finished = stage_history
            /\ pc \in {"post", "done"}
            /\ pc = "post" => status = "completed"
            /\ pc = "done" => (status = "completed" \/ StoppedOnRequest)

C5_Witness ==
    /\ pc = "done" /\ status = "completed" /\ Ran
    /\ LastEntry = <<"A", Str("DONE")>>
    /\ "DONE" \in DOMAIN config.stages["A"].transitions

\* C6: stage_history is at every point the sequence of (stage, signal) pairs
\* of the stage runs finished so far, in execution order and one entry per
\* visit (the run that has just returned is recorded by the executor's next
\* step); entries are never removed, reordered or changed.
C6_HistoryMatchesRuns ==
    stage_history = IF pc = "ret" THEN SubSeq(finished, 1, Len(finished) - 1) ELSE finished

C6_HistoryIsPathTaken ==
    /\ []C6_HistoryMatchesRuns
    /\ [][/\ Len(stage_history') >= Len(stage_history)
          /\ SubSeq(stage_history', 1, Len(stage_history)) = stage_history]_vars

C6_Witness ==
    /\ pc = "done"
    /\ \E i, j \in 1..Len(stage_history) : i < j /\ stage_history[i][1] = stage_history[j][1]

\* The last result names no target: its signal is no end signal and
\* get_next_stage returns None for it.
NoTarget ==
    /\ ~IsEnd(last_result.signal)
    /\ LET next == get_next_stage(LastStage, last_result)
       IN  ~next.raised /\ ~Truthy(next.stage)
ImplicitStatus == IF last_result.is_complete THEN "completed" ELSE "failed"

\* C7 as stated: a result whose signal is no end signal and has no
\* transition target ends the run without another stage, with status
\* COMPLETED if the result is complete and FAILED otherwise.
C7_NoTargetEndsRun ==
    (Ran /\ NoTarget /\ pc \in {"loop", "post", "done"}) =>
        /\ pc # "loop"
        /\ LastEntry = <<current_stage.v, last_result.signal>>
        /\ pc = "done" => status = ImplicitStatus

\* C7 amended: ... COMPLETED if the result is complete and FAILED otherwise,
\* or STOPPED when stop() was requested during the run.
C7_NoTargetEndsRunOrStopped ==
    (Ran /\ NoTarget /\ pc \in {"loop", "post", "done"}) =>
        /\ pc # "loop"
        /\ LastEntry = <<current_stage.v, last_result.signal>>
        /\ pc = "post" => status = ImplicitStatus
        /\ pc = "done" => (status = ImplicitStatus \/ StoppedOnRequest)

C7_Witness ==
    /\ pc = "done" /\ status = "completed" /\ Ran /\ NoTarget
    /\ last_result.is_complete /\ Truthy(last_result.signal)

\* Stage.run has returned a non-complete result after max_iterations.
Exhausted == pc = "ret" /\ ~last_result.is_complete /\ iterations >= StageMax
\* The signal of the last result is a key of the stage's transition map and
\* no end signal.
MappedSignal ==
    /\ last_result.signal.t = "str"
    /\ last_result.signal.v \in DOMAIN LastStage.transitions
    /\ ~IsEnd(last_result.signal)

\* C8 as stated: a stage that exhausts max_iterations without a completing
\* result never makes the pipeline move to another stage, whatever signal
\* its last iteration reported.
C8_ExhaustedNeverMoves ==
    [][(Exhausted /\ pc' # "ret") => pc' # "loop"]_vars

\* C8 amended: after such a stage the pipeline moves to another stage exactly
\* when the last result's signal is a key of the stage's transition map and
\* no end signal, and then to the stage mapped to it; otherwise no further
\* stage is run.
C8_ExhaustedMovesOnMappedSignal ==
    [][(Exhausted /\ pc' # "ret") =>
          /\ (pc' = "loop") <=> MappedSignal
          /\ pc' = "loop" =>
                current_stage_name' = Str(LastStage.transitions[last_result.signal.v])]_vars

C8_Witness ==
    /\ pc = "loop" /\ Ran
    /\ ~last_result.is_complete /\ iterations >= StageMax /\ StageMax >= 2
    /\ current_stage_name # current_stage

\* C9: run() never propagates an exception that originates in running a
\* stage (agent invocation, completion evaluation, transition lookup on the
\* stage's result): it always returns a state, FAILED when the stage
\* execution raised (STOPPED allowed for a requested stop).
C9_RunNeverPropagates ==
    /\ pc # "raised"
    /\ (pc = "done" /\ Ran /\ stage_raised) => status \in {"failed", "stopped"}

\* C10: stop() called before run() begins its second stage-loop iteration
\* (before the run starts, or while the first stage runs) makes run()
\* return STOPPED with at most the stages completed before the stop was
\* observed in stage_history.
C10_EarlyStopStops ==
    (pc = "done" /\ early_stop) => (status = "stopped" /\ Len(stage_history) <= 1)

\* C11: stop() is cooperative. A stop requested while a stage is running
\* changes nothing but the flag; the stage goes on to perform every
\* iteration until completion, invocation failure or max_iterations; the
\* request is honoured at the next test of the stage loop, after which no
\* stage is started and the agent is not invoked; STOPPED is set only when
\* run() returns.
C11_StopIsCooperative ==
    /\ [](status = "stopped" => pc = "done")
    /\ [][(pc \in {"iter", "ret"} /\ ~should_stop /\ should_stop') =>
            UNCHANGED <<pc, state_vars, stage_vars, context, current_stage_name, finished,
                        run_iters>>]_vars
    /\ [][(pc = "iter" /\ should_stop) =>
            /\ pc' \in {"iter", "ret"}
            /\ calls' = calls + 1
            /\ iterations' = iterations + 1
            /\ pc' = "ret" =>
                  (last_result'.is_complete \/ stage_raised' \/ iterations' >= StageMax)]_vars
    /\ [][(pc \in {"loop", "post", "done"} /\ should_stop) =>
            /\ pc' \in {"post", "done"}
            /\ finished' = finished
            /\ run_iters' = run_iters
            /\ current_stage' = current_stage]_vars

\* The stop arrived in a stage run that has an iteration left to perform.
C11_Witness ==
    pc = "iter" /\ should_stop /\ stop_requested /\ iterations >= 1 /\ iterations < StageMax

\* The events handed to on_event, in order.
Events == SelectSeq(observed, LAMBDA c : c.kind \in EventKinds)
Emitted(kind, st) == \E i \in 1..Len(Events) : Events[i].kind = kind /\ Events[i].status = st

\* C12: if stop() was requested during a run, run() returns status STOPPED
\* instead of the status the loop produced (COMPLETED or FAILED), and a
\* pipeline-completed event carrying STOPPED has been emitted.
C12_StopRequestedMeansStopped ==
    /\ (stop_requested /\ ~Running) => pc = "done"
    /\ (stop_requested /\ pc = "done") =>
          (status = "stopped" /\ Emitted("pipeline_completed", "stopped"))

\* C13: an on_event callback that raises, on any event and any number of
\* times, never aborts or alters the run: every step that run() takes with
\* such a callback is, on the executor's state, its position, the agent
\* invocations and the events handed over, a step of run() with a callback
\* that never raises.
C13_RaisingCallbackChangesNothing == [][QuietNext]_vars

\* A run of two stages or more has returned although the callback raised.
C13_Witness ==
    /\ pc = "done" /\ on_event /\ callback_raised
    /\ status = "completed" /\ Len(stage_history) >= 2 /\ Len(Events) >= 6

\* The calls of one stage visit follow each other in the order of run().
CallInOrder(i) ==
    LET c == observed[i]
        prev == observed[i - 1]
        next == observed[i + 1]
    IN  CASE c.kind = "before_stage" ->
                /\ i < Len(observed)
                /\ next.kind = "stage_started" /\ next.stage = c.stage /\ next.seen = c.seen
          [] c.kind = "stage_started" ->
                i > 1 /\ prev.kind = "before_stage" /\ prev.stage = c.stage
          [] c.kind = "stage_iteration" ->
                /\ i > 1 /\ prev.kind \in {"stage_started", "stage_iteration"}
                /\ prev.stage = c.stage /\ prev.seen = c.seen
          [] c.kind = "after_stage" ->
                /\ i > 1 /\ prev.kind = "stage_iteration" /\ prev.stage = c.stage
                /\ c.seen = prev.seen + 1
                /\ stage_history[c.seen][1] = c.stage
                /\ i < Len(observed)
                /\ next.kind = "stage_completed" /\ next.stage = c.stage /\ next.seen = c.seen
          [] c.kind = "stage_completed" ->
                i > 1 /\ prev.kind = "after_stage" /\ prev.stage = c.stage
          [] OTHER -> TRUE

C15_ArtifactKeysOnlyGrow ==
    /\ [][/\ DOMAIN global_artifacts \subseteq DOMAIN global_artifacts'
          /\ DOMAIN context \subseteq DOMAIN context']_vars
    /\ [][(pc = "ret" /\ pc' # "ret") =>
            \A k \in DOMAIN last_result.artifacts :
                /\ k \in DOMAIN global_artifacts'
                /\ global_artifacts'[k] = last_result.artifacts[k]
                /\ pc' = "loop" => context'[k] = last_result.artifacts[k]]_vars
    /\ [][(pc = "ret" /\ pc' # "ret") =>
            \A k \in DOMAIN global_artifacts \ DOMAIN last_result.artifacts :
                global_artifacts'[k] = global_artifacts[k]]_vars

\* An earlier stage's key is kept while a later stage has replaced the
\* value of another key.
C15_Witness ==
    /\ pc = "loop" /\ Len(stage_history) >= 2
    /\ "exit_code" \in DOMAIN global_artifacts
    /\ "exit_code" \notin DOMAIN last_result.artifacts
    /\ "k" \in DOMAIN last_result.artifacts
    /\ context["k"] = last_result.artifacts["k"] /\ context["k"] # InitialContext["k"]
    /\ global_artifacts["k"] = last_result.artifacts["k"]

\* C16: on a transition the context holds every artifact key of the stage's
\* result with the artifact's value, and the next stage builds each of its
\* prompts from this context; the artifacts of a stage reach the context in
\* no other way.
C16_NextStageSeesArtifacts ==
    /\ [][(pc = "ret" /\ pc' = "loop") =>
            \A k \in DOMAIN last_result.artifacts :
                k \in DOMAIN context' /\ context'[k] = last_result.artifacts[k]]_vars
    /\ [][(pc \in {"loop", "iter"} /\ pc' \in {"iter", "ret"}) => context' = context]_vars
    /\ [][(pc = "ret" /\ pc' # "loop") => context' = context]_vars

\* Stage A has built a prompt from a context that holds stage B's artifact.
C16_Witness ==
    /\ pc \in {"iter", "ret"} /\ calls >= 1 /\ current_stage = Str("A")
    /\ Ran /\ LastEntry[1] = "B"
    /\ context["k"] = Str("v1") /\ global_artifacts["k"] = Str("v1")

\* C17: each run() call works on a PipelineState created at the start of
\* that call: the stage_history and total_iterations it returns are those of
\* the stage runs and agent invocations of that call, also when run() is
\* called again on the same executor after an earlier run returned.
C17_RunStateIsFresh ==
    pc = "done" =>
        /\ stage_history = SubSeq(finished, run_first + 1, Len(finished))
        /\ total_iterations = run_iters

TerminalStatus == {"completed", "failed", "stopped"}

\* C18: whenever run() returns, the status of the returned state is
\* COMPLETED, FAILED or STOPPED, never PENDING or RUNNING, and a terminal
\* status set by the loop is changed afterwards only to STOPPED.
C18_ReturnsTerminalStatus ==
    /\ [](pc = "done" => status \in TerminalStatus)
    /\ [][(status \in TerminalStatus /\ status' # status) => status' = "stopped"]_vars

\* C19: a configuration whose start_stage or a transition target names no
\* declared stage is rejected when it is constructed, before any stage
\* runs, so an executor never has a current stage name that is not declared.
C19_UndeclaredStageRejected ==
    /\ (pc \in {"iter", "ret"} \/ Ran) => validate_stages(config)
    /\ Truthy(current_stage_name) => current_stage_name.v \in DOMAIN config.stages

\* The call of evaluate that is followed has returned; its result.
Evaluated == eval_result # <<>>
EvalResult == eval_result[1]
\* The tags of the output that are complete signals, in order of appearance.
CompleteTags ==
    LET tags == eval_output.tags
        complete == eval_call.strategy.complete
    IN  SelectSeq([i \in 1..Len(tags) |-> Strip(tags[i])],
                  LAMBDA t : \E j \in 1..Len(complete) : complete[j] = t)
GateApplies == eval_call.strategy.require_success /\ eval_call.exit_code # 0

\* C20 as stated: when the output holds tags whose text is a complete
\* signal, PromiseCompletion.evaluate reports the LAST of them, with
\* is_complete = true when the require_success gate does not apply.
C20_LastCompleteTagReported ==
    (Evaluated /\ eval_call.strategy.kind = "promise" /\ CompleteTags # <<>>) =>
        /\ EvalResult.signal = Str(CompleteTags[Len(CompleteTags)])
        /\ ~GateApplies => EvalResult.is_complete

\* C20 amended: ... reports the FIRST of them in order of appearance, with
\* is_complete = true when the require_success gate does not apply.
C20_FirstCompleteTagReported ==
    (Evaluated /\ eval_call.strategy.kind = "promise" /\ CompleteTags # <<>>) =>
        /\ EvalResult.signal = Str(CompleteTags[1])
        /\ ~GateApplies => EvalResult.is_complete

\* Two different complete signals in one output.
C20_Witness ==
    /\ Evaluated /\ Len(CompleteTags) >= 2
    /\ CompleteTags[1] # CompleteTags[Len(CompleteTags)]
    /\ EvalResult.is_complete /\ EvalResult.signal = Str(CompleteTags[1])

\* The strategy of the call is of the given kind; s is one of its complete
\* signals (or statuses).
IsKind(kind) == eval_call.strategy.kind = kind
IsCompleteSignal(s) ==
    \E j \in 1..Len(eval_call.strategy.complete) : eval_call.strategy.complete[j] = s
\* The openers of tags in the text before position p, and the text of the tag
\* an opener begins (up to the nearest "]]"), "" when it is never closed.
OpenersBefore(p) == {o \in 1..(p - 1) : StartsAt(eval_call.text, o, "[[PROMISE:")}
CloseOf(o) == Find(eval_call.text, "]]", o + 10)
TagTextAt(o) == IF CloseOf(o) = 0 THEN "" ELSE SubSeq(eval_call.text, o + 10, CloseOf(o) - 1)
\* Where the tag [[PROMISE:BUILD_COMPLETE]] first stands in the text, 0 if nowhere.
BuildCompleteAt == Find(eval_call.text, Tag("BUILD_COMPLETE"), 1)
BuildCompleteCall ==
    /\ Evaluated /\ IsKind("promise")
    /\ eval_call.exit_code = 0
    /\ IsCompleteSignal("BUILD_COMPLETE")
    /\ BuildCompleteAt # 0

\* C21 as stated: for every output that contains [[PROMISE:BUILD_COMPLETE]],
\* whatever other tags and text it contains, with exit_code = 0 and
\* BUILD_COMPLETE among the complete signals, PromiseCompletion.evaluate
\* returns is_complete = true and signal = "BUILD_COMPLETE".
C21_BuildCompleteAlwaysReported ==
    BuildCompleteCall =>
        (EvalResult.is_complete /\ EvalResult.signal = Str("BUILD_COMPLETE"))

\* C21 amended: ... provided every tag opened before it is closed before it
\* and has a text that, stripped, is no complete signal.
C21_BuildCompleteReportedWhenFirst ==
    (/\ BuildCompleteCall
     /\ \A o \in OpenersBefore(BuildCompleteAt) :
           /\ CloseOf(o) # 0 /\ CloseOf(o) < BuildCompleteAt
           /\ ~IsCompleteSignal(Strip(TagTextAt(o)))) =>
        (EvalResult.is_complete /\ EvalResult.signal = Str("BUILD_COMPLETE"))

\* A tag that is no complete signal stands before [[PROMISE:BUILD_COMPLETE]].
C21_Witness ==
    /\ BuildCompleteCall
    /\ OpenersBefore(BuildCompleteAt) # {}
    /\ \A o \in OpenersBefore(BuildCompleteAt) :
          /\ CloseOf(o) # 0 /\ CloseOf(o) < BuildCompleteAt
          /\ ~IsCompleteSignal(Strip(TagTextAt(o)))
    /\ EvalResult.is_complete /\ EvalResult.signal = Str("BUILD_COMPLETE")

\* The inner texts of the tags found in the output of the call, in order.
FoundTags == eval_output.tags
LastTag == FoundTags[Len(FoundTags)]

\* C22 as stated: when no tag's text is in the complete-signal set,
\* PromiseCompletion.evaluate returns is_complete = false and the signal is
\* the last tag found, or null when the output holds no tag.
C22_LastTagReported ==
    (/\ Evaluated /\ IsKind("promise")
     /\ \A i \in 1..Len(FoundTags) : ~IsCompleteSignal(FoundTags[i])) =>
        /\ ~EvalResult.is_complete
        /\ EvalResult.signal = IF FoundTags = <<>> THEN None ELSE Str(LastTag)

\* C22 amended: when no tag's text, stripped of surrounding whitespace, is
\* in the complete-signal set, the result has is_complete = false and its
\* signal is the stripped text of the last tag found, or null when the
\* output holds no tag.
C22_LastStrippedTagReported ==
    (/\ Evaluated /\ IsKind("promise")
     /\ \A i \in 1..Len(FoundTags) : ~IsCompleteSignal(Strip(FoundTags[i]))) =>
        /\ ~EvalResult.is_complete
        /\ EvalResult.signal = IF FoundTags = <<>> THEN None ELSE Str(Strip(LastTag))

\* Two different tags, none a complete signal, the last one padded.
C22_Witness ==
    /\ Evaluated /\ IsKind("promise")
    /\ Len(FoundTags) >= 2
    /\ \A i \in 1..Len(FoundTags) : ~IsCompleteSignal(Strip(FoundTags[i]))
    /\ Strip(LastTag) # LastTag
    /\ Strip(FoundTags[1]) # Strip(LastTag)
    /\ ~EvalResult.is_complete /\ EvalResult.signal = Str(Strip(LastTag))

\* What the call would have returned on exit code 0, where nothing is withheld.
OnSuccess == Evaluate(eval_call.strategy, eval_output, 0)

\* C23: for PromiseCompletion and JsonCompletion alike, when require_success
\* is set and exit_code # 0, a result that would otherwise complete has
\* is_complete = false while its signal is still reported (JsonCompletion
\* also adds exit_code to the artifacts); when require_success is not set,
\* the exit code has no influence on the result.
C23_GateWithholdsCompletionOnly ==
    (Evaluated /\ (IsKind("promise") \/ IsKind("json")) /\ ~eval_raised) =>
        /\ (GateApplies /\ OnSuccess.is_complete) =>
              /\ ~EvalResult.is_complete
              /\ EvalResult.signal = OnSuccess.signal
              /\ EvalResult.signal.t = "str"
              /\ IsKind("json") =>
                    EvalResult.artifacts =
                        DictUpdate(OnSuccess.artifacts,
                                   "exit_code" :> IntVal(CodeStr(eval_call.exit_code)))
        /\ ~eval_call.strategy.require_success => EvalResult = OnSuccess

\* A JsonCompletion with require_success, a completing block and a failed exit.
C23_Witness ==
    /\ Evaluated /\ IsKind("json") /\ GateApplies
    /\ OnSuccess.is_complete /\ OnSuccess.artifacts # EmptyDict
    /\ ~EvalResult.is_complete
    /\ EvalResult.signal = OnSuccess.signal
    /\ "exit_code" \in DOMAIN EvalResult.artifacts

\* The json blocks found in the output of the call, in order, as json.loads
\* read them.
FoundBlocks == eval_output.blocks
Loaded(i) == FoundBlocks[i]
\* The signal JsonCompletion reads in an object block.
StatusOf(b) ==
    IF b.parse = "object" /\ "status" \in DOMAIN b.data THEN b.data["status"] ELSE None

\* C24: JsonCompletion.evaluate uses only the last json block of the output:
\* the result is the one of an output that holds that block alone, also when
\* the last block is malformed and an earlier one is valid.
C24_OnlyLastBlockUsed ==
    (Evaluated /\ IsKind("json") /\ Len(FoundBlocks) >= 1) =>
        /\ EvalResult = Evaluate(eval_call.strategy,
                                 Output(<<>>, <<Loaded(Len(FoundBlocks))>>),
                                 eval_call.exit_code)
        /\ Loaded(Len(FoundBlocks)).parse # "object" =>
              EvalResult = CompletionResult(FALSE, None, EmptyDict)

\* Two object blocks with different status fields, the first one completing.
C24_Witness ==
    /\ Evaluated /\ IsKind("json") /\ Len(FoundBlocks) >= 2
    /\ Loaded(1).parse = "object" /\ Loaded(Len(FoundBlocks)).parse = "object"
    /\ StatusOf(Loaded(1)) = Str("done")
    /\ StatusOf(Loaded(Len(FoundBlocks))) = Str("w")
    /\ EvalResult = CompletionResult(FALSE, Str("W"), "status" :> Str("w"))

\* C25: JsonCompletion.evaluate never raises: for an output with no json
\* block, with a last block that does not parse, or with a last block whose
\* parsed value is no object, it returns is_complete = false with a null
\* signal and empty artifacts.
C25_JsonEvaluateNeverRaises ==
    IsKind("json") =>
        /\ ~eval_raised
        /\ (Evaluated /\ (FoundBlocks = <<>> \/ Loaded(Len(FoundBlocks)).parse # "object")) =>
              EvalResult = CompletionResult(FALSE, None, EmptyDict)

\* The object JsonCompletion reads in the call, when the last block is one.
ReadsObject == Evaluated /\ IsKind("json") /\ Len(FoundBlocks) >= 1
               /\ Loaded(Len(FoundBlocks)).parse = "object"
Data == Loaded(Len(FoundBlocks)).data
Configured ==
    {eval_call.strategy.artifact_fields[i] : i \in 1..Len(eval_call.strategy.artifact_fields)}
\* The dict d restricted to the keys K.
Restrict(d, K) == [k \in DOMAIN d \cap K |-> d[k]]
\* Completion was withheld by the require_success gate.
WasWithheld == GateApplies /\ OnSuccess.is_complete
WithExitCode(d) ==
    IF WasWithheld THEN DictUpdate(d, "exit_code" :> IntVal(CodeStr(eval_call.exit_code)))
    ELSE d

\* C26 as stated: with no artifact_fields configured the artifacts are every
\* field of the parsed object other than the signal field; with
\* artifact_fields configured they are exactly the configured fields that
\* are present in the object.
C26_ArtifactsWithoutSignalField ==
    ReadsObject =>
        EvalResult.artifacts =
            IF Configured = {}
            THEN Restrict(Data, DOMAIN Data \ {eval_call.strategy.signal_field})
            ELSE Restrict(Data, Configured)

\* C26 amended: with no artifact_fields configured (none, or an empty list)
\* the artifacts are every field of the parsed object, the signal field
\* included; with artifact_fields configured they are exactly the configured
\* fields that are present in the object; in both cases exit_code is added
\* when the require_success gate withholds completion.
C26_ArtifactsAreAllOrConfiguredFields ==
    ReadsObject =>
        EvalResult.artifacts =
            WithExitCode(IF Configured = {} THEN Data ELSE Restrict(Data, Configured))

\* No artifact_fields, an object with a status and another field.
C26_Witness ==
    /\ ReadsObject /\ Configured = {} /\ ~WasWithheld
    /\ eval_call.strategy.signal_field \in DOMAIN Data
    /\ DOMAIN Data # {eval_call.strategy.signal_field}
    /\ EvalResult.artifacts = Data

\* The strategies of the composite of the call, and those that return a
\* complete result on the arguments of the call.
Strategies == eval_call.strategy.strategies
Returns(i) == ~EvaluateRaises(Strategies[i], eval_output, eval_call.exit_code)
ResultOf(i) == Evaluate(Strategies[i], eval_output, eval_call.exit_code)
Completing == {i \in 1..Len(Strategies) : Returns(i) /\ ResultOf(i).is_complete}

\* C27: CompositeCompletion.evaluate over a non-empty list returns the
\* result of the first strategy, in list order, whose result has
\* is_complete = true; when no strategy completes it returns the result of
\* the last strategy of the list.
C27_FirstCompleteElseLast ==
    (IsKind("composite") /\ Len(Strategies) > 0 /\ (Evaluated \/ eval_raised)) =>
        /\ ~eval_raised
        /\ EvalResult = IF Completing # {} THEN ResultOf(SeqMin(Completing))
                        ELSE ResultOf(Len(Strategies))

C29_SignalIsStringOrNull ==
    \A i \in 1..Len(eval_result) : eval_result[i].signal.t \in {"str", "none"}

\* build_prompt has returned a prompt; the template it read; its context.
Built == prompt_result # <<>> /\ ~prompt_result[1].raised
Prompt == prompt_result[1].prompt
Template == load_template(None, prompt_call.template).template
Items == prompt_call.context
KeysOf(items) == {items[n][1] : n \in 1..Len(items)}
Placeholder(key) == "{" \o key \o "}"

\* The text s read from position i on, with every placeholder of a key of
\* items replaced by the string form of the key's value and every other
\* character kept: one pass, nothing that was put in is read again.
RECURSIVE ReplacedFrom(_, _, _)
ReplacedFrom(s, i, items) ==
    IF i > Len(s) THEN ""
    ELSE LET hits == {n \in 1..Len(items) : StartsAt(s, i, Placeholder(items[n][1]))}
         IN  IF hits = {} THEN Char(s, i) \o ReplacedFrom(s, i + 1, items)
             ELSE LET n == SeqMin(hits)
                  IN  PyStr(items[n][2])
                          \o ReplacedFrom(s, i + Len(Placeholder(items[n][1])), items)

\* C30: build_prompt replaces every occurrence of {key} in the
\* template, for each key of the context, by the string form of that key's
\* value, and leaves every placeholder of an absent key unchanged; it never
\* fails because of a missing key.
C30_TemplatePlaceholdersReplaced ==
    /\ (prompt_result # <<>> /\ prompt_result[1].raised) =>
          load_template(None, prompt_call.template).raised
    /\ Built => Prompt = ReplacedFrom(Template, 1, Items)

\* C31: Stage.run never modifies the context it is given: every step taken
\* while Stage.run is executing (an iteration that completes or not, an
\* invocation failure, a stop request arriving meanwhile) leaves the context
\* with the keys and values it had when Stage.run was called.
C31_StageRunLeavesContext == [][pc = "iter" => context' = context]_vars

\* A stage run of two iterations has returned a result with an artifact the
\* context does not hold.
C31_Witness ==
    /\ pc = "ret" /\ hooks /\ iterations = 2
    /\ "exit_code" \in DOMAIN last_result.artifacts
    /\ "exit_code" \notin DOMAIN context
    /\ "b" \in DOMAIN context

\* The pipeline-completed events of the run, in the order they were emitted.
CompletedEvents == SelectSeq(Events, LAMBDA e : e.kind = "pipeline_completed")

\* C35 as stated: every run() that returns has emitted exactly one
\* PipelineCompletedEvent, which is the last event of the run and carries
\* the status of the returned PipelineState.
C35_OneCompletedEventLast ==
    pc = "done" =>
        /\ Len(CompletedEvents) = 1
        /\ Events[Len(Events)].kind = "pipeline_completed"
        /\ Events[Len(Events)].status = status

\* C36 as stated: every StageIterationEvent emitted during a run carries an
\* iteration between 1 and the stage's max_iterations, also for a stage
\* entered again through a self-transition or a loop-back.
C36_IterationEventInRange ==
    \A i \in 1..Len(Events) :
        Events[i].kind = "stage_iteration" =>
            1 <= Events[i].count /\ Events[i].count <= Events[i].max

\* C37 as stated: whenever run() returns status COMPLETED, the result of the
\* last stage in stage_history had is_complete = true; a result with
\* is_complete = false never ends a run as COMPLETED.
C37_CompletedMeansComplete ==
    (pc = "done" /\ status = "completed" /\ Ran) => last_result.is_complete

\* ------------------------------------------------- accepted pipelines
\* The steps of run() on a pipeline that passes validate_stages, with a
\* callback, if any, that returns: every stage name the loop meets is a
\* declared stage.
RunSteps(outputs) ==
    \/ RunCall
    \/ RunReset
    \/ LoopExit
    \/ StageStart(FALSE)
    \/ \E o \in outputs, c \in ExitCodes : AgentReturns(o, c, FALSE)
    \/ \E m \in Failures : AgentRaises(m, FALSE)
    \/ AfterStage(FALSE)
    \/ Finish(FALSE)

NextOf(outputs) == Stop \/ RunSteps(outputs)

\* One run() of an executor built for the ship pipeline.
NextShip == NextOf(ShipOutputs)
InitShip == Construct(ShipPipelines, FALSE, FALSE) /\ NoEvaluate /\ NoPrompt /\ NoCallers
SpecShip == InitShip /\ [][NextShip]_vars

\* The stage names of stage_history, in order.
StagesRun == [i \in 1..Len(stage_history) |-> stage_history[i][1]]

\* C38 as stated, as a property of finite runs: provided every agent
\* invocation returns, run() terminates for every accepted configuration
\* without a stop() request. What the loop does next depends only on the
\* current stage name and on the result of the stage, and the results are
\* whatever the agent prints: a run that comes back to a stage it has
\* already run can come back to it again with the same results, without
\* end. Termination for every sequence of results therefore says that a
\* run nobody stopped runs no stage twice.
C38_NoStageRunAgain ==
    (validate_stages(config) /\ ~stop_requested /\ ~should_stop) =>
        \A i, j \in 1..Len(StagesRun) : i # j => StagesRun[i] # StagesRun[j]

\* The items of a dict in the opposite iteration order.
Reversed(items) == [n \in 1..Len(items) |-> items[Len(items) + 1 - n]]

\* C39 as stated: build_prompt inserts context values verbatim, a {k} inside
\* a substituted value is not itself replaced, so the prompt built from a
\* template and a context is the same whatever the order in which the
\* context's keys are iterated.
C39_ValuesInsertedVerbatim ==
    Built =>
        /\ Prompt = ReplacedFrom(Template, 1, Items)
        /\ Prompt = build_prompt(None, prompt_call.template, Reversed(Items)).prompt

\* ------------------------------------------------- cli.run_plan_pipeline
\* Everything but pc and the state of the callers.
engine_vars == <<config, on_event, hooks, eval_call, eval_result, eval_raised, eval_output,
                 prompt_call, prompt_result, template_cache, initial_context, should_stop,
                 state_vars, context, current_stage_name, stage_vars, observed, finished,
                 loop_iters, stop_pending, early_stop, stop_requested, run_history,
                 callback_raised>>

\* save_session(..., plan_context, plan_clarifications_path)
SavedSession(plan_context, clarif_path) ==
    [plan_context |-> plan_context, plan_clarifications_path |-> clarif_path]

\* What run_plan_pipeline returns: exit code and manifest path.
PlanResult(exit_code, manifest_path) == [exit_code |-> exit_code, manifest_path |-> manifest_path]

\* run_plan_pipeline's manifest path: the artifact, else build.md of the
\* output directory when that file exists.
ManifestPath(artifacts, exists) ==
    LET manifest_path == DictGet(artifacts, "manifest_path", Str(""))
    IN  IF ~Truthy(manifest_path) /\ exists THEN Str("/out/build.md") ELSE manifest_path

\* run_plan_pipeline after executor.run has returned; its `context` is the
\* dict the executor was constructed with, of which run() works on a copy.
PlanReturn(exists) ==
    /\ pc = "done"
    /\ pc' = "returned"
    /\ LET last_signal == IF Len(stage_history) > 0
                          THEN stage_history[Len(stage_history)][2] ELSE None
       IN  IF last_signal = Str("CLARIFICATIONS_NEEDED")
           THEN LET clarif_path ==
                        DictGet(global_artifacts, "clarifications_path",
                                DictGet(initial_context, "clarifications_path", Str("")))
                IN  /\ session' = <<SavedSession(initial_context, clarif_path)>>
                    /\ returned' = <<PlanResult(0, Str(""))>>
           ELSE /\ session' = session
                /\ returned' =
                       <<CASE status = "completed" ->
                                  PlanResult(0, ManifestPath(global_artifacts, exists))
                           [] status = "stopped" -> PlanResult(130, Str(""))
                           [] OTHER -> PlanResult(1, Str(""))>>
    /\ UNCHANGED <<engine_vars, stop_accepted, events, added, websocket>>

NextPlan == NextOf(PlanOutputs) \/ \E exists \in BOOLEAN : PlanReturn(exists)

\* One run of run_plan_pipeline on a new planning context.
InitPlan ==
    /\ ConstructWith({PlanPipeline}, TRUE, TRUE, PlanContext)
    /\ pc = "idle"
    /\ NoEvaluate /\ NoPrompt /\ NoCallers
SpecPlan == InitPlan /\ [][NextPlan]_vars

\* The stage that follows entry i of stage_history: the next entry's, or
\* the stage the loop has selected.
StageAfter(i) ==
    IF i < Len(stage_history) THEN Str(stage_history[i + 1][1]) ELSE current_stage_name
AssessEntry(i) ==
    /\ stage_history[i][1] = "assess"
    /\ stage_history[i][2] \in {Str("LIGHT"), Str("STANDARD"), Str("COMPREHENSIVE")}

\* C32: in every run of the planning pipeline an assess result LIGHT leads
\* directly to create_tasks, create_plan not run in between; STANDARD and
\* COMPREHENSIVE lead to create_plan and from there, on PLAN_COMPLETE, to
\* create_tasks; create_tasks is never entered without a completed assess
\* before it in stage_history.
C32_AssessRoutesPlanning ==
    /\ \A i \in 1..Len(stage_history) :
          /\ stage_history[i] = <<"assess", Str("LIGHT")>> =>
                StageAfter(i) = Str("create_tasks")
          /\ stage_history[i] \in {<<"assess", Str("STANDARD")>>,
                                   <<"assess", Str("COMPREHENSIVE")>>} =>
                StageAfter(i) = Str("create_plan")
          /\ stage_history[i] = <<"create_plan", Str("PLAN_COMPLETE")>> =>
                StageAfter(i) = Str("create_tasks")
          /\ stage_history[i][1] = "create_tasks" => \E j \in 1..(i - 1) : AssessEntry(j)
    /\ (pc \in {"iter", "ret"} /\ current_stage_name = Str("create_tasks")) =>
          \E j \in 1..Len(stage_history) : AssessEntry(j)

\* A run went from assess with LIGHT to create_tasks and on to req_validate.
C32_Witness ==
    /\ Len(stage_history) = 5
    /\ stage_history[2] = <<"assess", Str("LIGHT")>>
    /\ stage_history[3][1] = "create_tasks"
    /\ stage_history[5][1] = "req_validate"

\* C33 as stated: when the planning pipeline's last stage_history entry
\* carries CLARIFICATIONS_NEEDED, run_plan_pipeline saves a session whose
\* plan_context["clarifications_path"] is the clarifications_path of the
\* run's final global_artifacts (the empty string when they have none), and
\* returns exit code 0 with an empty manifest path.
C33_ClarificationsSessionSaved ==
    (pc = "returned" /\ Ran /\ LastEntry[2] = Str("CLARIFICATIONS_NEEDED")) =>
        /\ session # <<>>
        /\ session[1].plan_context["clarifications_path"] =
               DictGet(global_artifacts, "clarifications_path", Str(""))
        /\ returned = <<PlanResult(0, Str(""))>>

\* ------------------------------------------- server/routes/execution.py
\* ExecutionState.is_running: the background thread is alive. The thread
\* runs _run_pipeline: it loads the pipeline and builds the executor (pc =
\* "unloaded" until _execution_state.executor is assigned), then calls
\* run() and ends when run() returns or an exception leaves it.
ThreadAlive == pc \in {"unloaded", "idle"} \/ Running

\* _run_pipeline up to `_execution_state.executor = executor`, or up to the
\* exception load_pipeline or get_agent raises.
LoadPipeline(loads) ==
    /\ pc = "unloaded"
    /\ pc' = IF loads THEN "idle" ELSE "raised"
    /\ UNCHANGED <<engine_vars, caller_vars>>

\* POST /api/execution/stop, answered 409 unless the thread is alive:
\* stop() is called on the executor if there is one, the thread is joined
\* for at most five seconds, and the answer is {"status": "stopped"}.
StopExecution ==
    /\ ThreadAlive
    /\ stop_accepted' = TRUE
    /\ IF pc = "unloaded"
       THEN UNCHANGED <<should_stop, stop_pending, early_stop, stop_requested>>
       ELSE StopFlags
    /\ UNCHANGED <<config, on_event, hooks, eval_call, eval_result, eval_raised, eval_output,
                   prompt_call, prompt_result, template_cache, initial_context, pc,
                   state_vars, context, current_stage_name, stage_vars, observed, finished,
                   loop_iters, run_history, callback_raised, session, returned, events,
                   added, websocket>>

NextServer ==
    \/ \E loads \in BOOLEAN : LoadPipeline(loads)
    \/ StopExecution
    \/ RunSteps(ShipOutputs)

\* The background thread of one execution, from its start, and the stop
\* requests of the clients.
InitServer ==
    /\ ConstructWith(ShipPipelines, TRUE, FALSE, InitialContext)
    /\ pc = "unloaded"
    /\ NoEvaluate /\ NoPrompt /\ NoCallers
SpecServer == InitServer /\ [][NextServer]_vars

\* C34 as stated: after POST /api/execution/stop is accepted while the
\* background thread is alive, the running pipeline starts no further stage
\* and its executor ends with status STOPPED, wherever the thread is when
\* the request arrives: pipeline still loading, executor created but run()
\* not begun, or a stage in flight.
C34_AcceptedStopStopsPipeline ==
    /\ []((stop_accepted /\ pc = "done") => status = "stopped")
    /\ [][stop_accepted => loop_iters' <= loop_iters]_vars

\* ----------------------------------------------- server/routes/ws.py
\* The event log holds the events by the number of the add_event call that
\* appended them. A client's record: where execution_websocket is (closed,
\* poll: at the head of its loop, send: sending the events it fetched,
\* index: about to set last_event_index), its last_event_index, the events
\* fetched and not yet sent, the events the client has received, and the
\* number of add_event calls made before it connected.

\* list[since:]
SliceFrom(list, since) == SubSeq(list, since + 1, Len(list))

\* ExecutionState.get_events(since)
get_events(log, since) == SliceFrom(log, since)

\* ExecutionState.add_event, called by the pipeline thread through on_event.
AddEvent ==
    /\ added < MaxAdded
    /\ added' = added + 1
    /\ events' = Append(events, added + 1)
    /\ UNCHANGED <<engine_vars, pc, session, returned, stop_accepted, websocket>>

\* start_execution: _execution_state.clear() for a new execution. It runs
\* on the event loop, so between two awaits of execution_websocket.
Clear ==
    /\ websocket.pc \in {"closed", "poll", "send"}
    /\ events # <<>>
    /\ events' = <<>>
    /\ UNCHANGED <<engine_vars, pc, session, returned, stop_accepted, added, websocket>>

\* execution_websocket: the client connects, last_event_index = 0.
WsConnect ==
    /\ websocket.pc = "closed"
    /\ websocket.sent = <<>>
    /\ websocket' = [websocket EXCEPT !.pc = "poll", !.last_event_index = 0, !.first = added]
    /\ UNCHANGED <<engine_vars, pc, session, returned, stop_accepted, events, added>>

\* events = _execution_state.get_events(last_event_index)
WsGetEvents ==
    /\ websocket.pc = "poll"
    /\ LET fetched == get_events(events, websocket.last_event_index)
       IN  websocket' = [websocket EXCEPT !.batch = fetched,
                                          !.pc = IF fetched = <<>> THEN "index" ELSE "send"]
    /\ UNCHANGED <<engine_vars, pc, session, returned, stop_accepted, events, added>>

\* await manager.send_personal(event, websocket), one event of the batch
WsSend ==
    /\ websocket.pc = "send"
    /\ websocket' = [websocket EXCEPT !.sent = Append(@, Head(websocket.batch)),
                                      !.batch = Tail(@),
                                      !.pc = IF Tail(websocket.batch) = <<>>
                                             THEN "index" ELSE "send"]
    /\ UNCHANGED <<engine_vars, pc, session, returned, stop_accepted, events, added>>

\* last_event_index = len(_execution_state.events), then the status
\* message, the sleep and the receive with timeout.
WsUpdateIndex ==
    /\ websocket.pc = "index"
    /\ websocket' = [websocket EXCEPT !.last_event_index = Len(events), !.pc = "poll"]
    /\ UNCHANGED <<engine_vars, pc, session, returned, stop_accepted, events, added>>

NextStream ==
    \/ AddEvent
    \/ Clear
    \/ WsConnect
    \/ WsGetEvents
    \/ WsSend
    \/ WsUpdateIndex

\* The event log of the server, the pipeline thread that appends to it and
\* one WebSocket client.
InitStream ==
    /\ Construct({ShipPipeline(1)}, TRUE, FALSE)
    /\ NoEvaluate /\ NoPrompt /\ NoCallers
SpecStream == InitStream /\ [][NextStream]_vars

\* The events appended while the client was connected.
AppendedWhileConnected ==
    IF websocket.pc = "closed" THEN {} ELSE (websocket.first + 1)..added
SentTo == {websocket.sent[i] : i \in 1..Len(websocket.sent)}
StillToFetch == {events[p] : p \in (websocket.last_event_index + 1)..Len(events)}

\* C40 as stated: every event the pipeline thread appends to the event log
\* while a WebSocket client is connected is sent to that client exactly once
\* and in log order, however add_event and a new execution's clear
\* interleave with the client's streaming loop. Of a finite run: the events
\* received are in log order without repetition, and at the head of the
\* streaming loop every event appended so far has been received or is in
\* the log beyond last_event_index, where the next get_events fetches it.
C40_EventsStreamedOnceInOrder ==
    /\ \A i, j \in 1..Len(websocket.sent) :
          i < j => websocket.sent[i] < websocket.sent[j]
    /\ websocket.pc = "poll" => AppendedWhileConnected \subseteq SentTo \cup StillToFetch

====
